---- MODULE Spec2Model ----
(***************************************************************************)
(* Verification model of the ad-creative generation backend:               *)
(*   backend/services/creativeService.js (router version, lines 470-1038)  *)
(*   and the Express request handler POST /api/generate-creatives.         *)
(*                                                                         *)
(* A request is driven from the handler through generateCreatives, whose   *)
(* loop runs one unit at a time: submit an image-edit job, poll it, ask    *)
(* for a caption, post-process the image, stage two files.  The surviving  *)
(* units are zipped and the staged files are removed.  Remote services and *)
(* the file system answer nondeterministically.                            *)
(***************************************************************************)
EXTENDS Integers, Sequences, FiniteSets, TLC

VARIABLES
    req,        \* per request: the position and locals of its handler
    tempDir,    \* backend/temp_generations: file name -> content (shared)
    uploadsDir, \* backend/uploads: the uploaded files present
    call        \* one call of a function of the service, taken by itself

vars == <<req, tempDir, uploadsDir, call>>

----------------------------------------------------------------------------
(* Bounds and program constants *)

\* Number of units per request.  The source sets 1 "for testing" and names 12
\* for production; the model runs the loop for a small N > 1.
NUM_VARIATIONS == 2

\* Poll attempt ceiling of the job poller.
maxAttempts == 60

Reqs == {1, 2}
Units == 0 .. (NUM_VARIATIONS - 1)

----------------------------------------------------------------------------
(* Errors.  An error is a message (a sequence of text fragments), and, for  *)
(* an axios error that carries an HTTP response, the response's status and  *)
(* body.  status = 0 stands for "error.response is undefined".              *)

NoBody == [b |-> "none", msg |-> "none"]

Err(m) == [msg |-> m, status |-> 0, body |-> NoBody]

\* axios rejects a non-2xx answer with this message and error.response set.
AxiosErr(code, body) ==
    [msg |-> <<"Request failed with status code ", ToString(code)>>,
     status |-> code, body |-> body]

\* A request that got no HTTP response at all (connection reset, DNS, ...).
NetErr == Err(<<"socket hang up">>)

\* A TypeError raised by reading a property of null / decoding undefined.
TypeErr == Err(<<"TypeError">>)

\* Messages the remote service may put in an error field.
SvcMsgs == {"invalid image", "quota exceeded", "code 402"}

\* String.prototype.includes on a fragment.
FragmentIncludes(frag, needle) ==
    \/ frag = needle
    \/ needle = "quota" /\ frag = "quota exceeded"
    \/ needle = "402" /\ frag = "code 402"

Includes(m, needle) == \E k \in DOMAIN m : FragmentIncludes(m[k], needle)

TimeoutMsg ==
    <<"Image generation timed out - job did not complete within expected time">>
EmptyOutputsMsg == <<"Job completed but outputs array is empty">>
UnexpectedFormatMsg == <<"Unexpected image format in outputs">>
UnexpectedResponseMsg == <<"Unexpected response format">>
QuotaMsg == <<"HuggingFace API quota exceeded. Please check your API key limits.">>
PaymentMsg == <<"Payment required: The wavespeed provider requires credits.">>
MkdirMsg == <<"EACCES: permission denied, mkdir">>
ReadMsg == <<"ENOENT: no such file">>
ArchiverMsg == <<"archiver error">>
UnlinkMsg == <<"EPERM: operation not permitted, unlink">>

NoCreativesMsg == <<"Failed to generate any creatives">>

----------------------------------------------------------------------------
(* What the remote services can answer *)

\* Body of an HTTP error answer: JSON with or without an error field, or text
\* that is not JSON.
ErrBodies ==
    {[b |-> "json", msg |-> m] : m \in SvcMsgs \cup {"none"}}
        \cup {[b |-> "text", msg |-> "none"]}

\* A body fetched with responseType 'arraybuffer' is a Buffer: an object
\* without an error field.
BufferBody == [b |-> "json", msg |-> "none"]

HttpErrorCodes == {400, 401, 402, 403, 404, 429, 500, 503}

HttpErrors == {[t |-> "http_error", code |-> c, body |-> b] :
                  c \in HttpErrorCodes, b \in ErrBodies}

NoResponse == [t |-> "no_response"]

\* Outcome of axios.get(imageUrl, {responseType: 'arraybuffer'}).
FetchOutcomes ==
    {[t |-> "ok"], NoResponse}
        \cup {[t |-> "http_error", code |-> c] : c \in {403, 404, 500}}

NoFetch == [t |-> "none"]

\* No status request was answered yet.
NoStatusAnswer == [t |-> "none"]

\* What outputs[0] can be: nothing, an http(s) URL, a data: URI, a data: URI
\* without a comma, or anything else (another string, a non-string).
OutputKinds == {"empty", "url", "data", "data_nocomma", "other"}

FetchesFor(o) == IF o = "url" THEN FetchOutcomes ELSE {NoFetch}

\* Answers to the status request.  status "none" is a body without a status
\* field (also a body that is not JSON, which axios hands over as a string);
\* "unknown" is any string outside the service's vocabulary.
PollResponses ==
    {[t |-> "ok", status |-> s, outputs |-> "empty", error |-> "none",
      fetch |-> NoFetch] : s \in {"created", "processing", "unknown", "none"}}
    \cup
    UNION {{[t |-> "ok", status |-> s, outputs |-> o, error |-> "none",
             fetch |-> f] : f \in FetchesFor(o)} :
                s \in {"completed", "succeeded"}, o \in OutputKinds}
    \cup
    {[t |-> "ok", status |-> s, outputs |-> "empty", error |-> e,
      fetch |-> NoFetch] :
          s \in {"failed", "error"}, e \in SvcMsgs \cup {"none", ""}}
    \cup {[t |-> "ok", status |-> "unknown", outputs |-> "data",
            error |-> "none", fetch |-> NoFetch]}
    \cup {[t |-> "null_body"]}
    \cup HttpErrors
    \cup {NoResponse}

\* Answers to the submission request.  hasId: responseData.data.id is truthy.
\* With axios' default response type the body is never a Buffer, so the
\* Buffer.isBuffer(response.data) branch is not an input of the model.
SubmitResponses ==
    UNION {{[t |-> "ok", hasId |-> h, outputs |-> o, fetch |-> f] :
               f \in IF h THEN {NoFetch} ELSE FetchesFor(o)} :
                  h \in BOOLEAN, o \in OutputKinds}
    \cup {[t |-> "no_data"]}
    \cup HttpErrors
    \cup {NoResponse}

----------------------------------------------------------------------------
(* generateImageViaRouterImageToImage and generateImage, as functions of    *)
(* the answers they receive                                                 *)

Continue == [k |-> "continue"]
Return == [k |-> "return"]
Throw(e) == [k |-> "throw", err |-> e]

\* Resolving outputs[0] to bytes inside the polling loop (lines 751-769).
\* Faulty variant of ResolveOutput: an empty outputs list is polled again.
ResolveOutputRetriesEmpty(o, fetch) ==
    CASE o = "empty" -> Continue
      [] o = "url" ->
            CASE fetch.t = "ok" -> Return
              [] fetch.t = "http_error" ->
                    Throw(AxiosErr(fetch.code, BufferBody))
              [] OTHER -> Throw(NetErr)
      [] o = "data" -> Return
      [] o = "data_nocomma" -> Throw(TypeErr)
      [] OTHER -> Throw(Err(UnexpectedFormatMsg))

ResolveOutput(o, fetch) ==
    CASE o = "empty" -> Throw(Err(EmptyOutputsMsg))
      [] o = "url" ->
            CASE fetch.t = "ok" -> Return
              [] fetch.t = "http_error" ->
                    Throw(AxiosErr(fetch.code, BufferBody))
              [] OTHER -> Throw(NetErr)
      [] o = "data" -> Return
      [] o = "data_nocomma" -> Throw(TypeErr)
      [] OTHER -> Throw(Err(UnexpectedFormatMsg))

\* Faulty variant of JobFailedErr: the service's error is not read.
JobFailedErrDefault(e) ==
    Err(<<"Image generation job failed: ", "Job failed">>)

\* The message of a failed job: the service's error, or the default.
JobFailedErr(e) ==
    Err(<<"Image generation job failed: ",
          IF e \in {"none", ""} THEN "Job failed" ELSE e>>)

\* Faulty variant of PollTry: a status that is not recognised is an error.
PollTryStrict(resp) ==
    CASE resp.t = "http_error" -> Throw(AxiosErr(resp.code, resp.body))
      [] resp.t = "no_response" -> Throw(NetErr)
      [] resp.t = "null_body" -> Throw(TypeErr)
      [] OTHER ->
            IF resp.status \in {"completed", "succeeded"}
            THEN ResolveOutput(resp.outputs, resp.fetch)
            ELSE IF resp.status \in {"failed", "error"}
                 THEN Throw(JobFailedErr(resp.error))
                 ELSE IF resp.status \in {"created", "processing"}
                      THEN Continue
                      ELSE Throw(Err(UnexpectedResponseMsg))

\* The try block of one polling iteration (lines 733-774).
PollTry(resp) ==
    CASE resp.t = "http_error" -> Throw(AxiosErr(resp.code, resp.body))
      [] resp.t = "no_response" -> Throw(NetErr)
      [] resp.t = "null_body" -> Throw(TypeErr)
      [] OTHER ->
            IF resp.status \in {"completed", "succeeded"}
            THEN ResolveOutput(resp.outputs, resp.fetch)
            ELSE IF resp.status \in {"failed", "error"}
                 THEN Throw(JobFailedErr(resp.error))
                 ELSE Continue

\* Faulty variant of IsRetryable: a 404 is not retried.
IsRetryableNo404(status) == status = 401 \/ status >= 500

\* 404, 401 and 5xx answers are retried.
IsRetryable(status) == status = 404 \/ status = 401 \/ status >= 500

\* Faulty variant of PollCatch: every HTTP error answer is retried.
PollCatchRetriesAll(e) ==
    IF e.status # 0 THEN Continue ELSE Throw(e)

\* The catch block of one polling iteration (lines 775-792).
PollCatch(e) ==
    IF e.status # 0 /\ IsRetryable(e.status) THEN Continue ELSE Throw(e)

\* Faulty variant of LoopContinues: the bound is off by one.
LoopContinuesInclusive(attempt) == attempt <= maxAttempts

\* The condition of the polling loop (line 730).
LoopContinues(attempt) == attempt < maxAttempts

\* One iteration of the polling loop.
PollIteration(resp) ==
    LET t == PollTry(resp)
    IN  IF t.k = "throw" THEN PollCatch(t.err) ELSE t

\* Faulty variant of SubmitStep: a body without job id and without usable
\* output is returned as if it were the image.
SubmitStepReturnsBody(resp) ==
    CASE resp.t = "http_error" -> Throw(AxiosErr(resp.code, resp.body))
      [] resp.t = "no_response" -> Throw(NetErr)
      [] resp.t = "no_data" -> Return
      [] OTHER ->
            IF resp.hasId THEN [k |-> "poll"]
            ELSE CASE resp.outputs = "data_nocomma" -> Throw(TypeErr)
                   [] resp.outputs = "url" /\ resp.fetch.t = "http_error" ->
                        Throw(AxiosErr(resp.fetch.code, BufferBody))
                   [] resp.outputs = "url" /\ resp.fetch.t = "no_response" ->
                        Throw(NetErr)
                   [] OTHER -> Return

\* Handling of the submission answer (lines 716-724 and 798-822).
SubmitStep(resp) ==
    CASE resp.t = "http_error" -> Throw(AxiosErr(resp.code, resp.body))
      [] resp.t = "no_response" -> Throw(NetErr)
      [] resp.t = "no_data" -> Throw(Err(UnexpectedResponseMsg))
      [] OTHER ->
            IF resp.hasId THEN [k |-> "poll"]
            ELSE CASE resp.outputs = "data" -> Return
                   [] resp.outputs = "data_nocomma" -> Throw(TypeErr)
                   [] resp.outputs = "url" ->
                        CASE resp.fetch.t = "ok" -> Return
                          [] resp.fetch.t = "http_error" ->
                                Throw(AxiosErr(resp.fetch.code, BufferBody))
                          [] OTHER -> Throw(NetErr)
                   [] OTHER -> Throw(Err(UnexpectedResponseMsg))

\* The outer catch of generateImageViaRouterImageToImage (lines 823-843).
RouterCatch(e) ==
    IF e.status # 0
    THEN IF e.body.b = "text"
         THEN Err(<<"SyntaxError: Unexpected token in JSON">>)
         ELSE Err(<<"ImageToImage failed (", ToString(e.status), "): ">>
                    \o (IF e.body.msg # "none" THEN <<e.body.msg>> ELSE e.msg))
    ELSE e

\* Faulty variant of GenerateImageCatch: the cause is left out of the
\* generic message.
GenerateImageCatchNoCause(e) ==
    IF e.status = 429 \/ Includes(e.msg, "quota")
    THEN Err(QuotaMsg)
    ELSE IF e.status = 402 \/ Includes(e.msg, "402")
         THEN Err(PaymentMsg)
         ELSE Err(<<"Image generation failed">>)

\* The catch of generateImage (lines 666-679).
GenerateImageCatch(e) ==
    IF e.status = 429 \/ Includes(e.msg, "quota")
    THEN Err(QuotaMsg)
    ELSE IF e.status = 402 \/ Includes(e.msg, "402")
         THEN Err(PaymentMsg)
         ELSE Err(<<"Image generation failed: ">> \o e.msg)

\* The error a caller of generateImage sees for an error raised inside the
\* router call.
ImageError(e) == GenerateImageCatch(RouterCatch(e))

----------------------------------------------------------------------------
(* Files *)

NoFile == [req |-> 0, unit |-> 0, what |-> "absent", text |-> <<>>]

\* creative-k.jpg and creative-k.txt of unit i (k = i + 1).
imageFilename(i) == <<i + 1, "jpg">>
captionFilename(i) == <<i + 1, "txt">>

FileNames == {imageFilename(u) : u \in Units} \cup {captionFilename(u) : u \in Units}

\* The uploaded files of a request (multer gives each a unique name).
logoPath(r) == <<r, "logo">>
productPath(r) == <<r, "product">>

----------------------------------------------------------------------------
(* generateCaption (lines 944-999).  A text is a sequence of characters; the
   two static sentences are kept as one fragment each. *)

NoCaption == <<>>
FallbackEmpty == <<"Discover our amazing product today!">>
FallbackOnError ==
    <<"Experience the difference with our premium product. Shop now and transform your lifestyle today!">>

Whitespace == {" ", "\n"}

RECURSIVE TrimStart(_)
TrimStart(s) ==
    IF Len(s) > 0 /\ Head(s) \in Whitespace THEN TrimStart(Tail(s)) ELSE s

RECURSIVE TrimEnd(_)
TrimEnd(s) ==
    IF Len(s) > 0 /\ s[Len(s)] \in Whitespace
    THEN TrimEnd(SubSeq(s, 1, Len(s) - 1))
    ELSE s

\* String.prototype.trim
Trim(s) == TrimEnd(TrimStart(s))

\* Where the shortest match of  open .*? close  starting at s[1] ends, or 0:
\* the dot does not match a line break.
ClosesAt(s, close) ==
    LET js == {j \in 2..Len(s) :
                  s[j] = close /\ \A k \in 2..(j - 1) : s[k] # "\n"}
    IN  IF js = {} THEN 0 ELSE CHOOSE j \in js : \A k \in js : j <= k

\* replace(/\[.*?\]/g, '') and replace(/\(.*?\)/g, '')
RECURSIVE StripDelimited(_, _, _)
StripDelimited(s, open, close) ==
    IF Len(s) = 0 THEN <<>>
    ELSE IF Head(s) = open /\ ClosesAt(s, close) # 0
         THEN StripDelimited(SubSeq(s, ClosesAt(s, close) + 1, Len(s)), open, close)
         ELSE <<Head(s)>> \o StripDelimited(Tail(s), open, close)

RECURSIVE DropNewlines(_)
DropNewlines(s) ==
    IF Len(s) > 0 /\ Head(s) = "\n" THEN DropNewlines(Tail(s)) ELSE s

\* replace(/\n+/g, ' ')
RECURSIVE CollapseNewlines(_)
CollapseNewlines(s) ==
    IF Len(s) = 0 THEN <<>>
    ELSE IF Head(s) = "\n"
         THEN <<" ">> \o CollapseNewlines(DropNewlines(s))
         ELSE <<Head(s)>> \o CollapseNewlines(Tail(s))

\* Lines 984-991.
Cleanup(content) ==
    Trim(CollapseNewlines(
        StripDelimited(StripDelimited(Trim(content), "[", "]"), "(", ")")))

\* Message contents the chat model can answer with.
CaptionContents ==
    {<<>>,
     <<" ", "\n">>,
     <<"[", "a", "]">>,
     <<"(", ")", "\n", "[", "b", "]">>,
     <<"a">>,
     <<" ", "a", "(", "b", ")", "\n">>,
     <<"[", "b", "]", "\n", "\n", "a", "(", "[", ")">>}

\* Answers to the chat-completion request: no answer, an HTTP error, a body
\* without choices, a choice without content, a choice with content.
NoCaptionAnswer == [t |-> "none"]

CaptionAnswers ==
    {NoResponse}
    \cup {[t |-> "http_error", code |-> c] : c \in {401, 429, 500}}
    \cup {[t |-> "ok", choices |-> "none"], [t |-> "ok", choices |-> "no_content"]}
    \cup {[t |-> "ok", choices |-> "text", content |-> c] : c \in CaptionContents}

\* The request or the reading of response.data.choices[0].message.content
\* throws.
CaptionRequestFails(ans) == ans.t # "ok" \/ ans.choices # "text"

\* Faulty variant of generateCaption: the cleaned text is returned as it is.
generateCaptionNoDefault(ans) ==
    IF CaptionRequestFails(ans)
    THEN FallbackOnError
    ELSE Cleanup(ans.content)

generateCaption(ans) ==
    IF CaptionRequestFails(ans)
    THEN FallbackOnError
    ELSE IF Cleanup(ans.content) = <<>>
         THEN FallbackEmpty
         ELSE Cleanup(ans.content)

----------------------------------------------------------------------------
(* State of one request *)

NoErr == Err(<<>>)

NoJob == [req |-> 0, unit |-> -1]

\* The identifier the remote service gives the job of a submission: a fresh
\* one for every submission it accepts.
IssuedJobId(r, u) == [req |-> r, unit |-> u]

NoAnswer == [status |-> 0, kind |-> "none", body |-> <<>>]

NewRequest(logo, product) ==
    [pc |-> "received",
     files |-> [logo |-> logo, product |-> product],
     i |-> 0,                    \* loop variable of generateCreatives
     creatives |-> <<>>,         \* units pushed to creatives, in order
     jobState |-> "IDLE",        \* state of the current unit's remote job
     attempt |-> 0,              \* loop variable of the polling loop
     submitRequests |-> 0,       \* submission requests issued for the unit
     statusRequests |-> 0,       \* status requests issued for the unit
     submitResp |-> NoStatusAnswer, \* what was read of the submission answer
     jobId |-> NoJob,            \* the job id read from the submission answer
     pollTarget |-> NoJob,       \* the job the last status request asked about
     scriptPos |-> 0,            \* how far the answers so far follow Script
     onlyProcessing |-> TRUE,    \* every status answer so far was non-terminal
     lastResp |-> NoStatusAnswer, \* the last answer to a status request
     jobErr |-> NoErr,           \* the error leaving the router call
     err |-> NoErr,              \* the error in flight
     dropped |-> {},             \* units the loop's catch has dropped
     attempted |-> [u \in Units |-> 0],
     jobFinal |-> [u \in Units |-> "NONE"],
     caption |-> NoCaption,      \* the caption generateCaption returned
     captionAnswer |-> NoCaptionAnswer, \* the chat answer it was made from
     captioned |-> {},           \* units a caption was requested for
     processed |-> {},           \* units whose image was post-processed
     zipCalls |-> 0,
     zipBuffer |-> <<>>,
     returned |-> FALSE,         \* generateCreatives returned a buffer
     response |-> NoAnswer]

Absent == [NewRequest(FALSE, FALSE) EXCEPT !.pc = "absent"]

\* No function is called by itself.
NoCall == [fn |-> "none"]

Uploaded(r) ==
    (IF req[r].files.logo THEN {logoPath(r)} ELSE {})
        \cup (IF req[r].files.product THEN {productPath(r)} ELSE {})

\* One request arrives with any combination of the two uploads.
Init ==
    /\ \E logo \in BOOLEAN, product \in BOOLEAN :
          req = [r \in Reqs |-> IF r = 1 THEN NewRequest(logo, product) ELSE Absent]
    /\ tempDir = [n \in FileNames |-> NoFile]
    /\ uploadsDir = Uploaded(1)
    /\ call = NoCall

Set(r, rec) == req' = [req EXCEPT ![r] = rec]


----------------------------------------------------------------------------
(* The scripted answers [processing, processing, 404, succeeded] *)

Script == <<"processing", "processing", "404", "succeeded">>

\* Does a status answer read as the given script entry?  A scripted success
\* names a usable output: a data: URI, or a URL whose fetch succeeds.
Follows(resp, entry) ==
    CASE entry = "404" -> resp.t = "http_error" /\ resp.code = 404
      [] entry = "succeeded" ->
            /\ resp.t = "ok" /\ resp.status = "succeeded"
            /\ \/ resp.outputs = "data"
               \/ resp.outputs = "url" /\ resp.fetch.t = "ok"
      [] OTHER -> resp.t = "ok" /\ resp.status = entry

\* Position in the script after one more answer; -1 once the answers left it.
ScriptAfter(pos, resp) ==
    IF pos >= 0 /\ pos < Len(Script) /\ Follows(resp, Script[pos + 1])
    THEN pos + 1
    ELSE -1

\* What is kept of the last status answer: an HTTP error by its code.
StatusLine(resp) ==
    IF resp.t = "http_error" THEN [t |-> "http_error", code |-> resp.code] ELSE resp

\* What is read of the submission answer: with a job id nothing else of the
\* body is looked at.
SubmitLine(resp) ==
    CASE resp.t = "http_error" -> [t |-> "http_error", code |-> resp.code]
      [] resp.t = "ok" /\ resp.hasId -> [t |-> "ok", hasId |-> TRUE]
      [] OTHER -> resp

NonTerminal(resp) ==
    resp.t = "ok" /\ resp.status \notin {"completed", "succeeded", "failed", "error"}

----------------------------------------------------------------------------
(* POST /api/generate-creatives: the handler up to the call *)

Answer(status, kind, body) == [status |-> status, kind |-> kind, body |-> body]

\* Faulty variant of Receive: generateCreatives is called without the test
\* for the two uploads.
ReceiveNoValidation(r) ==
    LET me == req[r]
    IN  /\ me.pc = "received"
        /\ Set(r, [me EXCEPT !.pc = "generateCreatives"])
        /\ UNCHANGED <<tempDir, uploadsDir, call>>

\* Lines 49-64 of the handler: validate the uploads, call generateCreatives.
Receive(r) ==
    LET me == req[r]
    IN  /\ me.pc = "received"
        /\ IF ~me.files.logo \/ ~me.files.product
           THEN Set(r, [me EXCEPT
                    !.pc = "responded",
                    !.response = Answer(400, "json",
                        <<"Both logo and product images are required">>)])
           ELSE Set(r, [me EXCEPT !.pc = "generateCreatives"])
        /\ UNCHANGED <<tempDir, uploadsDir, call>>

----------------------------------------------------------------------------
(* generateCreatives *)

\* Lines 518-531: create the temp directory, read both uploads.
StartGenerateWith(r, ios) ==
    LET me == req[r]
    IN  /\ me.pc = "generateCreatives"
        /\ \E io \in ios :
              IF io = "mkdir"
              THEN Set(r, [me EXCEPT !.pc = "handler_catch",
                                     !.err = Err(MkdirMsg)])
              ELSE IF io = "ok" /\ {logoPath(r), productPath(r)} \subseteq uploadsDir
              THEN Set(r, [me EXCEPT !.pc = "loop", !.i = 0, !.creatives = <<>>])
              ELSE Set(r, [me EXCEPT !.pc = "outer_catch",
                                     !.err = Err(ReadMsg)])
        /\ UNCHANGED <<tempDir, uploadsDir, call>>

\* fs.mkdirSync (line 522, before the try block) or fs.readFileSync (lines
\* 527-528) can throw.
StartOutcomes == {"ok", "mkdir", "read"}

StartGenerate(r) == StartGenerateWith(r, StartOutcomes)

\* The locals of generateImageViaRouterImageToImage, before a call and after
\* it returned or threw.
NoJobLocals(me) ==
    [me EXCEPT !.attempt = 0,
               !.submitRequests = 0,
               !.statusRequests = 0,
               !.submitResp = NoStatusAnswer,
               !.jobId = NoJob,
               !.pollTarget = NoJob,
               !.jobErr = NoErr,
               !.scriptPos = 0,
               !.onlyProcessing = TRUE,
               !.lastResp = NoStatusAnswer]

\* Loop head with i < NUM_VARIATIONS (lines 533-539, 653-713): build the
\* prompt, enter generateImage, issue the submission request.
\* Faulty variant of BeginUnit: the loop does not wait for the job of the
\* unit before it, and goes on to the next unit while that job is polled.
BeginUnitNoAwait(r) ==
    LET me == req[r]
        next == IF me.pc = "poll" THEN me.i + 1 ELSE me.i
    IN  /\ me.pc \in {"loop", "poll"}
        /\ next < NUM_VARIATIONS
        /\ Set(r, [NoJobLocals(me) EXCEPT
                !.pc = "submit",
                !.i = next,
                !.attempted[next] = @ + 1,
                !.jobState = "SUBMITTING",
                !.submitRequests = 1,
                !.caption = NoCaption])
        /\ UNCHANGED <<tempDir, uploadsDir, call>>

BeginUnit(r) ==
    LET me == req[r]
    IN  /\ me.pc = "loop"
        /\ me.i < NUM_VARIATIONS
        /\ Set(r, [NoJobLocals(me) EXCEPT
                !.pc = "submit",
                !.attempted[me.i] = @ + 1,
                !.jobState = "SUBMITTING",
                !.submitRequests = 1,
                !.caption = NoCaption])
        /\ UNCHANGED <<tempDir, uploadsDir, call>>

\* Faulty variant of JobFails: a job that ended with an error is submitted
\* once more.
JobFailsResubmits(me, state, e) ==
    IF me.submitRequests < 2
    THEN [me EXCEPT !.pc = "submit",
                    !.jobState = "SUBMITTING",
                    !.submitRequests = @ + 1,
                    !.attempt = 0]
    ELSE [me EXCEPT !.pc = "unit_catch",
                    !.jobState = state,
                    !.jobFinal[me.i] = state,
                    !.jobErr = RouterCatch(e),
                    !.err = ImageError(e)]

\* The unit's job ended with error e: generateImage rethrows it and the
\* loop's catch receives it.
JobFails(me, state, e) ==
    [me EXCEPT !.pc = "unit_catch",
               !.jobState = state,
               !.jobFinal[me.i] = state,
               !.jobErr = RouterCatch(e),
               !.err = ImageError(e)]

\* generateImage returned the image bytes.
\* Faulty variant of JobSucceeds: post-processing comes next, without a
\* caption.
JobSucceedsThenSharp(me) ==
    [me EXCEPT !.pc = "sharp",
               !.jobState = "SUCCEEDED",
               !.jobFinal[me.i] = "SUCCEEDED"]

JobSucceeds(me) ==
    [me EXCEPT !.pc = "caption",
               !.jobState = "SUCCEEDED",
               !.jobFinal[me.i] = "SUCCEEDED"]

\* The submission answer arrives (lines 698-724, 798-822).
SubmitWith(r, answers) ==
    LET me == req[r]
    IN  /\ me.pc = "submit"
        /\ \E resp \in answers :
              LET s == SubmitStep(resp)
                  got == [me EXCEPT !.submitResp = SubmitLine(resp)]
              IN  CASE s.k = "poll" ->
                        Set(r, [got EXCEPT !.pc = "poll",
                                           !.jobState = "POLLING",
                                           !.jobId = IssuedJobId(r, me.i),
                                           !.attempt = 0])
                    [] s.k = "return" -> Set(r, JobSucceeds(got))
                    [] OTHER -> Set(r, JobFails(got, "FAILED", s.err))
        /\ UNCHANGED <<tempDir, uploadsDir, call>>

\* The submission gets any answer of the service.
Submit(r) == SubmitWith(r, SubmitResponses)

\* The job a status request asks about (pollUrl, line 724).
PollUrl(me) == me.jobId

\* One iteration of the polling loop (lines 730-795): wait, issue the status
\* request, handle its answer; leaving the loop by its bound throws the
\* timeout error.
PollWith(r, answers) ==
    LET me == req[r]
    IN  /\ me.pc = "poll"
        /\ LoopContinues(me.attempt)
        /\ \E resp \in answers :
              LET it == PollIteration(resp)
                  polled == [me EXCEPT
                      !.statusRequests = @ + 1,
                      !.pollTarget = PollUrl(me),
                      !.lastResp = StatusLine(resp),
                      !.scriptPos = ScriptAfter(@, resp),
                      !.onlyProcessing = @ /\ NonTerminal(resp)]
              IN  CASE it.k = "return" -> Set(r, JobSucceeds(polled))
                    [] it.k = "throw" -> Set(r, JobFails(polled, "FAILED", it.err))
                    [] OTHER ->
                        IF LoopContinues(me.attempt + 1)
                        THEN Set(r, [polled EXCEPT !.attempt = @ + 1])
                        ELSE Set(r, JobFails([polled EXCEPT !.attempt = @ + 1],
                                             "TIMED_OUT", Err(TimeoutMsg)))
        /\ UNCHANGED <<tempDir, uploadsDir, call>>

\* A status request gets any answer of the service.
Poll(r) == PollWith(r, PollResponses)

\* generateCaption (lines 542, 944-999): never throws.
CaptionWith(r, answers) ==
    LET me == req[r]
    IN  /\ me.pc = "caption"
        /\ \E ans \in answers :
              Set(r, [NoJobLocals(me) EXCEPT !.pc = "sharp",
                                             !.captionAnswer = ans,
                                             !.captioned = @ \cup {me.i},
                                             !.caption = generateCaption(ans)])
        /\ UNCHANGED <<tempDir, uploadsDir, call>>

\* The chat-completion request gets any answer.
Caption(r) == CaptionWith(r, CaptionAnswers)

\* sharp(...).resize().jpeg().toFile(imagePath) (lines 545-550): the image
\* file is written, or the bytes do not decode.
PostProcessWith(r, outcomes) ==
    LET me == req[r]
    IN  /\ me.pc = "sharp"
        /\ \E decodes \in outcomes :
              IF decodes
              THEN /\ tempDir' = [tempDir EXCEPT ![imageFilename(me.i)] =
                                    [req |-> r, unit |-> me.i, what |-> "image",
                                     text |-> <<>>]]
                   /\ Set(r, [me EXCEPT !.pc = "stage",
                                        !.processed = @ \cup {me.i},
                                        !.captionAnswer = NoCaptionAnswer])
              ELSE /\ Set(r, [me EXCEPT !.pc = "unit_catch",
                                        !.captionAnswer = NoCaptionAnswer,
                                        !.err = Err(<<"Input buffer contains unsupported image format">>)])
                   /\ UNCHANGED tempDir
        /\ UNCHANGED <<uploadsDir, call>>

\* The bytes decode or they do not.
PostProcess(r) == PostProcessWith(r, BOOLEAN)

\* fs.writeFileSync(captionPath, caption) and creatives.push (lines 552-564).
StageWith(r, ios) ==
    LET me == req[r]
    IN  /\ me.pc = "stage"
        /\ \E io \in ios :
              IF io
              THEN /\ tempDir' = [tempDir EXCEPT ![captionFilename(me.i)] =
                                    [req |-> r, unit |-> me.i, what |-> "caption",
                                     text |-> me.caption]]
                   /\ Set(r, [me EXCEPT !.pc = "loop",
                                        !.creatives = Append(@, me.i),
                                        !.i = @ + 1])
              ELSE /\ Set(r, [me EXCEPT !.pc = "unit_catch",
                                        !.err = Err(<<"ENOSPC: no space left on device">>)])
                   /\ UNCHANGED tempDir
        /\ UNCHANGED <<uploadsDir, call>>

\* The write succeeds or fails.
Stage(r) == StageWith(r, BOOLEAN)

\* Faulty variant of UnitCatch: the catch rethrows, so the first failing unit
\* ends the loop.
UnitCatchRethrows(r) ==
    LET me == req[r]
    IN  /\ me.pc = "unit_catch"
        /\ Set(r, [NoJobLocals(me) EXCEPT !.pc = "outer_catch",
                                          !.dropped = @ \cup {me.i}])
        /\ UNCHANGED <<tempDir, uploadsDir, call>>

\* The catch of the loop body (lines 565-569): log, go on with the next unit.
UnitCatch(r) ==
    LET me == req[r]
    IN  /\ me.pc = "unit_catch"
        /\ Set(r, [NoJobLocals(me) EXCEPT !.pc = "loop",
                                          !.i = @ + 1,
                                          !.err = NoErr,
                                          !.dropped = @ \cup {me.i}])
        /\ UNCHANGED <<tempDir, uploadsDir, call>>

\* Faulty variant of EndLoop: createZipFile is called without the test for
\* an empty creatives list.
EndLoopNoCheck(r) ==
    LET me == req[r]
    IN  /\ me.pc = "loop"
        /\ me.i >= NUM_VARIATIONS
        /\ Set(r, [me EXCEPT !.pc = "zip", !.zipCalls = @ + 1])
        /\ UNCHANGED <<tempDir, uploadsDir, call>>

\* After the loop (lines 571-576): throw when nothing was pushed, else call
\* createZipFile.
EndLoop(r) ==
    LET me == req[r]
    IN  /\ me.pc = "loop"
        /\ me.i >= NUM_VARIATIONS
        /\ IF Len(me.creatives) = 0
           THEN Set(r, [me EXCEPT !.pc = "outer_catch", !.err = Err(NoCreativesMsg)])
           ELSE Set(r, [me EXCEPT !.pc = "zip", !.zipCalls = @ + 1])
        /\ UNCHANGED <<tempDir, uploadsDir, call>>


----------------------------------------------------------------------------
(* createZipFile, cleanup, and the rest of the handler *)

\* Faulty variant of ArchiveOf: only the image of each creative is added.
ArchiveOfImagesOnly(cs, dir) ==
    [k \in 1 .. Len(cs) |->
        [name |-> imageFilename(cs[k]), content |-> dir[imageFilename(cs[k])]]]

\* The entries archive.file() adds (lines 1026-1029): per creative, the image
\* file and then the caption file, read from the temp directory.
ArchiveOf(cs, dir) ==
    [k \in 1 .. (2 * Len(cs)) |->
        LET c == cs[(k + 1) \div 2]
            n == IF k % 2 = 1 THEN imageFilename(c) ELSE captionFilename(c)
        IN  [name |-> n, content |-> dir[n]]]

\* Files the operating system refuses to unlink (EPERM, EBUSY).
UnlinkFaults == {{}, {imageFilename(0)}, {captionFilename(0)}}

\* Lines 579-586: per creative, unlink the image and then the caption; an
\* unlink that throws (the file is missing, or is one of stuck) ends that
\* creative's cleanup, and the error is logged.
CleanupCreatives(dir, cs, stuck) ==
    LET staged == {cs[k] : k \in DOMAIN cs}
        imageGoes(c) == dir[imageFilename(c)] # NoFile /\ imageFilename(c) \notin stuck
    IN  [n \in FileNames |->
            IF \E c \in staged :
                  /\ imageGoes(c)
                  /\ \/ n = imageFilename(c)
                     \/ n = captionFilename(c) /\ n \notin stuck
            THEN NoFile
            ELSE dir[n]]

\* Faulty variant of ZipWith: the staged files are removed before the archive
\* is read from them.
ZipWithCleansFirst(r, ios, faults) ==
    LET me == req[r]
        present == \A k \in DOMAIN me.creatives :
                      /\ tempDir[imageFilename(me.creatives[k])] # NoFile
                      /\ tempDir[captionFilename(me.creatives[k])] # NoFile
    IN  /\ me.pc = "zip"
        /\ \E io \in ios, stuck \in faults :
              IF io /\ present
              THEN /\ tempDir' = CleanupCreatives(tempDir, me.creatives, stuck)
                   /\ Set(r, [me EXCEPT !.pc = "handler_ok",
                                        !.zipBuffer = ArchiveOf(me.creatives, tempDir'),
                                        !.returned = TRUE])
              ELSE /\ Set(r, [me EXCEPT !.pc = "outer_catch",
                                        !.err = Err(ArchiverMsg)])
                   /\ UNCHANGED tempDir
        /\ UNCHANGED <<uploadsDir, call>>

\* createZipFile settles (lines 576-588, 1004-1033).  On 'end' the buffer is
\* returned after the staged files were removed; on 'error' the promise
\* rejects.
ZipWith(r, ios, faults) ==
    LET me == req[r]
        present == \A k \in DOMAIN me.creatives :
                      /\ tempDir[imageFilename(me.creatives[k])] # NoFile
                      /\ tempDir[captionFilename(me.creatives[k])] # NoFile
    IN  /\ me.pc = "zip"
        /\ \E io \in ios, stuck \in faults :
              IF io /\ present
              THEN /\ Set(r, [me EXCEPT !.pc = "handler_ok",
                                        !.zipBuffer = ArchiveOf(me.creatives, tempDir),
                                        !.returned = TRUE])
                   /\ tempDir' = CleanupCreatives(tempDir, me.creatives, stuck)
              ELSE /\ Set(r, [me EXCEPT !.pc = "outer_catch",
                                        !.err = Err(ArchiverMsg)])
                   /\ UNCHANGED tempDir
        /\ UNCHANGED <<uploadsDir, call>>

\* The archiver ends or reports an error.
Zip(r) == ZipWith(r, BOOLEAN, UnlinkFaults)

\* The outer catch of generateCreatives (lines 589-599): unlink every file
\* of the temp directory, ignoring the unlinks that throw, and rethrow.
OuterCatchWith(r, faults) ==
    LET me == req[r]
    IN  /\ me.pc = "outer_catch"
        /\ \E stuck \in faults :
              tempDir' = [n \in FileNames |-> IF n \in stuck THEN tempDir[n] ELSE NoFile]
        /\ Set(r, [me EXCEPT !.pc = "handler_catch"])
        /\ UNCHANGED <<uploadsDir, call>>

OuterCatch(r) == OuterCatchWith(r, UnlinkFaults)

\* What the unlink of an upload can do: both unlinks succeed, the one of the
\* logo throws, the one of the product throws.
UploadUnlinks == {"ok", "logo", "product"}

\* Faulty variant of HandlerOkWith: the ZIP is sent before the uploads are
\* removed.
HandlerOkWithSendsFirst(r, unlinks) ==
    LET me == req[r]
        sent == [me EXCEPT !.response = Answer(200, "zip", me.zipBuffer)]
    IN  /\ me.pc = "handler_ok"
        /\ \E u \in unlinks :
              IF logoPath(r) \notin uploadsDir \/ u = "logo"
              THEN /\ Set(r, [sent EXCEPT !.pc = "handler_catch", !.err = Err(UnlinkMsg)])
                   /\ UNCHANGED uploadsDir
              ELSE IF productPath(r) \notin uploadsDir \/ u = "product"
              THEN /\ Set(r, [sent EXCEPT !.pc = "handler_catch", !.err = Err(UnlinkMsg)])
                   /\ uploadsDir' = uploadsDir \ {logoPath(r)}
              ELSE /\ Set(r, [sent EXCEPT !.pc = "responded"])
                   /\ uploadsDir' = uploadsDir \ {logoPath(r), productPath(r)}
        /\ UNCHANGED <<tempDir, call>>

\* Lines 66-73 of the handler: remove the uploads, send the ZIP.  The two
\* unlinkSync calls are statements of the handler's try block.
HandlerOkWith(r, unlinks) ==
    LET me == req[r]
    IN  /\ me.pc = "handler_ok"
        /\ \E u \in unlinks :
              IF logoPath(r) \notin uploadsDir \/ u = "logo"
              THEN /\ Set(r, [me EXCEPT
                          !.pc = "handler_catch",
                          !.err = Err(IF logoPath(r) \notin uploadsDir
                                      THEN ReadMsg ELSE UnlinkMsg)])
                   /\ UNCHANGED uploadsDir
              ELSE IF productPath(r) \notin uploadsDir \/ u = "product"
              THEN /\ Set(r, [me EXCEPT
                          !.pc = "handler_catch",
                          !.err = Err(IF productPath(r) \notin uploadsDir
                                      THEN ReadMsg ELSE UnlinkMsg)])
                   /\ uploadsDir' = uploadsDir \ {logoPath(r)}
              ELSE /\ Set(r, [me EXCEPT !.pc = "responded",
                                        !.response = Answer(200, "zip", me.zipBuffer)])
                   /\ uploadsDir' = uploadsDir \ {logoPath(r), productPath(r)}
        /\ UNCHANGED <<tempDir, call>>

HandlerOk(r) == HandlerOkWith(r, UploadUnlinks)

\* Uploads the operating system refuses to unlink.
UploadFaults(r) == {{}, {logoPath(r)}, {productPath(r)}}

\* Lines 75-95 of the handler: unlink the uploads, each in its own try with
\* an empty catch, and answer 500 with the error's message.
HandlerCatchWith(r, faults) ==
    LET me == req[r]
    IN  /\ me.pc = "handler_catch"
        /\ \E stuck \in faults :
              uploadsDir' = uploadsDir \ ({logoPath(r), productPath(r)} \ stuck)
        /\ Set(r, [me EXCEPT
                !.pc = "responded",
                !.response = Answer(500, "json",
                    IF me.err.msg = <<>> THEN <<"Failed to generate creatives">>
                                         ELSE me.err.msg)])
        /\ UNCHANGED <<tempDir, call>>

HandlerCatch(r) == HandlerCatchWith(r, UploadFaults(r))

----------------------------------------------------------------------------

Next ==
    \E r \in Reqs :
        \/ Receive(r)
        \/ StartGenerate(r)
        \/ BeginUnit(r)
        \/ Submit(r)
        \/ Poll(r)
        \/ Caption(r)
        \/ PostProcess(r)
        \/ Stage(r)
        \/ UnitCatch(r)
        \/ EndLoop(r)
        \/ Zip(r)
        \/ OuterCatch(r)
        \/ HandlerOk(r)
        \/ HandlerCatch(r)

Spec == Init /\ [][Next]_vars

----------------------------------------------------------------------------
(* Two requests served at the same time.  Node runs the two handlers on one
   thread and switches between them at every await, which is where the
   actions end; the answers are narrowed to one of each kind. *)

ConcSubmitAnswers ==
    {[t |-> "ok", hasId |-> TRUE, outputs |-> "empty", fetch |-> NoFetch],
     [t |-> "ok", hasId |-> FALSE, outputs |-> "data", fetch |-> NoFetch],
     NoResponse}

ConcPollAnswers ==
    {[t |-> "ok", status |-> "succeeded", outputs |-> "data", error |-> "none",
      fetch |-> NoFetch]}

ConcCaptionAnswers == {[t |-> "ok", choices |-> "text", content |-> <<"a">>]}

InitConc ==
    /\ req = [r \in Reqs |-> NewRequest(TRUE, TRUE)]
    /\ tempDir = [n \in FileNames |-> NoFile]
    /\ uploadsDir = Uploaded(1) \cup Uploaded(2)
    /\ call = NoCall

NextConc ==
    \E r \in Reqs :
        \/ Receive(r)
        \/ StartGenerateWith(r, {"ok"})
        \/ BeginUnit(r)
        \/ SubmitWith(r, ConcSubmitAnswers)
        \/ PollWith(r, ConcPollAnswers)
        \/ CaptionWith(r, ConcCaptionAnswers)
        \/ PostProcessWith(r, {TRUE})
        \/ StageWith(r, {TRUE})
        \/ UnitCatch(r)
        \/ EndLoop(r)
        \/ ZipWith(r, {TRUE}, {{}})
        \/ OuterCatchWith(r, {{}})
        \/ HandlerOkWith(r, {"ok"})
        \/ HandlerCatchWith(r, {{}})

SpecConc == InitConc /\ [][NextConc]_vars

----------------------------------------------------------------------------
(* createZipFile (lines 1004-1033) taken by itself: the promise, its three
   event handlers, and the archiver stream that calls them.  The stream is a
   sequence of tokens: per queued file a local header and the deflated
   content, then the central directory; the archiver hands it over in chunks
   of its own choosing, and can report an error at any moment before the
   end. *)

Deflate(c) == [deflated |-> c]
Inflate(z) == z.deflated

\* The names archive.file() queues (lines 1026-1029).
QueuedNames(cs) ==
    [k \in 1 .. (2 * Len(cs)) |->
        IF k % 2 = 1 THEN imageFilename(cs[(k + 1) \div 2])
                     ELSE captionFilename(cs[(k + 1) \div 2])]

RECURSIVE EntryStream(_, _)
EntryStream(names, dir) ==
    IF Len(names) = 0 THEN <<>>
    ELSE <<[t |-> "hdr", name |-> Head(names), z |-> Deflate(NoFile)],
           [t |-> "data", name |-> Head(names), z |-> Deflate(dir[Head(names)])]>>
            \o EntryStream(Tail(names), dir)

\* What the archiver emits after finalize() for the queued names.
ArchiveStream(names, dir) ==
    EntryStream(names, dir)
        \o <<[t |-> "cd", name |-> <<0, "cd">>, z |-> Deflate(NoFile)]>>

\* Buffer.concat(chunks) (line 1017).
RECURSIVE Concat(_)
Concat(chunks) ==
    IF Len(chunks) = 0 THEN <<>> ELSE Head(chunks) \o Concat(Tail(chunks))

\* resolve and reject of the promise: only the first call settles it.
Resolve(c, buf) ==
    IF c.promise = "pending"
    THEN [c EXCEPT !.promise = "resolved", !.buffer = buf, !.settled = @ + 1]
    ELSE c

Reject(c, e) ==
    IF c.promise = "pending"
    THEN [c EXCEPT !.promise = "rejected", !.error = e, !.settled = @ + 1]
    ELSE c

\* Faulty variant of OnData: the chunk is put in front of the others.
OnDataPrepends(c, chunk) == [c EXCEPT !.chunks = <<chunk>> \o @]

\* archive.on('data') (lines 1012-1014).
OnData(c, chunk) == [c EXCEPT !.chunks = Append(@, chunk)]

\* archive.on('end') (lines 1016-1019).
OnEnd(c) == Resolve(c, Concat(c.chunks))

\* Faulty variant of OnError: what was collected so far is handed out.
OnErrorResolves(c, e) == Resolve(c, Concat(c.chunks))

\* archive.on('error') (lines 1021-1023).
OnError(c, e) == Reject(c, e)

\* A call of createZipFile with the creatives list cs.
ZipCall(cs) ==
    [fn |-> "createZipFile", pc |-> "called", creatives |-> cs,
     queue |-> <<>>, finalized |-> FALSE, stream |-> <<>>, chunks |-> <<>>,
     ended |-> FALSE, errored |-> FALSE,
     promise |-> "pending", buffer |-> <<>>, error |-> NoErr, settled |-> 0]

\* The creatives lists the loop can hand over: units in rising order, at
\* least one.
RECURSIVE Rising(_)
Rising(u) ==
    IF u >= NUM_VARIATIONS THEN {<<>>}
    ELSE Rising(u + 1) \cup {<<u>> \o cs : cs \in Rising(u + 1)}

CreativesLists == Rising(0) \ {<<>>}

ZipCaptions == {<<"a">>, FallbackEmpty}

\* The temp directory with the two files of every creative of cs.
StagedDirs(cs) ==
    LET kept == {cs[k] : k \in DOMAIN cs}
    IN  {[n \in FileNames |->
            IF n[1] - 1 \in kept
            THEN [req |-> 1, unit |-> n[1] - 1,
                  what |-> IF n[2] = "jpg" THEN "image" ELSE "caption",
                  text |-> IF n[2] = "jpg" THEN <<>> ELSE cap[n[1] - 1]]
            ELSE NoFile] : cap \in [Units -> ZipCaptions]}

InitZip ==
    /\ req = [r \in Reqs |-> Absent]
    /\ uploadsDir = {}
    /\ \E cs \in CreativesLists :
          /\ tempDir \in StagedDirs(cs)
          /\ call = ZipCall(cs)

\* The executor of the promise (lines 1005-1031): make the archive, register
\* the handlers, queue the files, finalize.
ZipExecutor ==
    /\ call.fn = "createZipFile" /\ call.pc = "called"
    /\ call' = [call EXCEPT !.pc = "streaming",
                            !.queue = QueuedNames(call.creatives),
                            !.finalized = TRUE,
                            !.stream = ArchiveStream(QueuedNames(call.creatives), tempDir)]
    /\ UNCHANGED <<req, tempDir, uploadsDir>>

\* The archiver emits 'data' with the next one or two tokens.
ZipEmitData ==
    /\ call.fn = "createZipFile" /\ call.pc = "streaming"
    /\ ~call.ended
    /\ \E k \in 1 .. 2 :
          /\ k <= Len(call.stream)
          /\ call' = OnData([call EXCEPT !.stream = SubSeq(@, k + 1, Len(@))],
                            SubSeq(call.stream, 1, k))
    /\ UNCHANGED <<req, tempDir, uploadsDir>>

\* The archiver's stream ends when everything was handed over.
ZipEmitEnd ==
    /\ call.fn = "createZipFile" /\ call.pc = "streaming"
    /\ ~call.ended
    /\ Len(call.stream) = 0
    /\ call' = OnEnd([call EXCEPT !.ended = TRUE])
    /\ UNCHANGED <<req, tempDir, uploadsDir>>

\* The archiver emits 'error'; it may have handed over chunks before, and
\* may hand over more afterwards.
ZipEmitError ==
    /\ call.fn = "createZipFile" /\ call.pc = "streaming"
    /\ ~call.ended /\ ~call.errored
    /\ call' = OnError([call EXCEPT !.errored = TRUE], Err(ArchiverMsg))
    /\ UNCHANGED <<req, tempDir, uploadsDir>>

NextZip == ZipExecutor \/ ZipEmitData \/ ZipEmitEnd \/ ZipEmitError

SpecZip == InitZip /\ [][NextZip]_vars

\* Reading an archive back: the central directory comes last, and every
\* header is followed by the data of its entry.
IsArchive(buf) ==
    /\ Len(buf) > 0
    /\ Len(buf) % 2 = 1
    /\ buf[Len(buf)].t = "cd"
    /\ \A k \in 1 .. (Len(buf) - 1) :
          IF k % 2 = 1
          THEN buf[k].t = "hdr"
          ELSE buf[k].t = "data" /\ buf[k].name = buf[k - 1].name

Unzip(buf) ==
    IF IsArchive(buf)
    THEN [k \in 1 .. ((Len(buf) - 1) \div 2) |->
            [name |-> buf[2 * k - 1].name, content |-> Inflate(buf[2 * k].z)]]
    ELSE <<>>


----------------------------------------------------------------------------
(* Properties of the orchestrator (generateCreatives and the handler) *)

Succeeded(me) == {u \in Units : me.jobFinal[u] = "SUCCEEDED"}

EntryNames(buf) == {buf[k].name : k \in DOMAIN buf}

\* C1 (as stated): whenever generateCreatives returns an archive, it holds
\* exactly as many image/caption pairs as there are units whose job reached
\* SUCCEEDED.
C1_ArchiveCountsSucceededJobs ==
    \A r \in Reqs :
        req[r].returned =>
            Len(req[r].zipBuffer) = 2 * Cardinality(Succeeded(req[r]))

\* C1 (amended): whenever generateCreatives returns an archive, it holds
\* exactly one creative-k.jpg and one creative-k.txt for every unit whose job
\* reached SUCCEEDED and that no later stage dropped, and no entry for any
\* other unit; so it never holds more pairs than jobs that SUCCEEDED.
C1_ArchiveHoldsSurvivingUnits ==
    \A r \in Reqs :
        LET me == req[r]
            buf == me.zipBuffer
            kept == Succeeded(me) \ me.dropped
        IN  me.returned =>
                /\ Len(buf) = 2 * Cardinality(kept)
                /\ EntryNames(buf) =
                      {imageFilename(u) : u \in kept} \cup {captionFilename(u) : u \in kept}
                /\ \A j, k \in DOMAIN buf : buf[j].name = buf[k].name => j = k
                /\ \A k \in DOMAIN buf : buf[k].content # NoFile
                /\ Len(buf) >= 2
                /\ Len(buf) <= 2 * Cardinality(Succeeded(me))

\* An archive is returned although a unit whose job SUCCEEDED was dropped.
C1_Witness ==
    \E r \in Reqs :
        /\ req[r].returned
        /\ req[r].pc = "responded"
        /\ \E u \in req[r].dropped : req[r].jobFinal[u] = "SUCCEEDED"

\* C2: when no unit was staged, createZipFile is never called, no buffer is
\* returned, and the handler answers with a JSON error and a non-200 status:
\* 500 with the no-creatives message once the loop has run.
C2_NoUnitNoArchive ==
    \A r \in Reqs :
        LET me == req[r]
        IN  Len(me.creatives) = 0 =>
                /\ me.zipCalls = 0
                /\ ~me.returned
                /\ me.zipBuffer = <<>>
                /\ me.pc # "zip" /\ me.pc # "handler_ok"
                /\ me.response.kind # "zip"
                /\ me.response.status # 200
                /\ me.pc = "responded" =>
                      /\ me.response.kind = "json"
                      /\ me.response.status \in {400, 500}
                      /\ me.response.body # <<>>
                /\ (me.pc = "responded" /\ me.i >= NUM_VARIATIONS) =>
                      me.response = Answer(500, "json", NoCreativesMsg)

\* Every unit was attempted, none was staged, and the handler answered 500.
C2_Witness ==
    \E r \in Reqs :
        /\ req[r].pc = "responded"
        /\ \A u \in Units : req[r].attempted[u] = 1
        /\ Len(req[r].creatives) = 0
        /\ req[r].response.status = 500

InUnit == {"submit", "poll", "caption", "sharp", "stage", "unit_catch"}

\* C3: a unit's failure only drops that unit.  No unit is attempted twice,
\* the units are attempted in order, a dropped unit is never staged, and
\* once the loop was entered it ends only after every unit 0..N-1 was
\* attempted exactly once, whatever the earlier units did.
C3_EveryUnitAttemptedOnce ==
    \A r \in Reqs :
        LET me == req[r]
            entered == \E u \in Units : me.attempted[u] > 0
        IN  /\ \A u \in Units :
                 me.attempted[u] =
                    IF u < me.i \/ (u = me.i /\ me.pc \in InUnit) THEN 1 ELSE 0
            /\ \A k \in DOMAIN me.creatives : me.creatives[k] \notin me.dropped
            /\ me.dropped \subseteq {u \in Units : me.attempted[u] = 1}
            /\ (entered /\ me.pc \notin InUnit \cup {"loop"}) =>
                   \A u \in Units : me.attempted[u] = 1
            /\ me.pc = "unit_catch" => me.err # NoErr

\* The first unit was dropped and the last unit was attempted all the same.
C3_Witness ==
    \E r \in Reqs :
        /\ 0 \in req[r].dropped
        /\ req[r].attempted[NUM_VARIATIONS - 1] = 1
        /\ req[r].pc = "responded"


----------------------------------------------------------------------------
(* Properties of the job submitter and poller *)

\* A status request answered with HTTP 404, 401 or 5xx.
TransientAnswer(a) ==
    a.t = "http_error" /\ (a.code = 404 \/ a.code = 401 \/ a.code >= 500)

\* A status request answered with another 4xx, with a null body, or not
\* answered at all.
HardErrorAnswer(a) ==
    \/ a.t = "http_error" /\ a.code >= 400 /\ a.code < 500 /\ a.code \notin {401, 404}
    \/ a.t = "no_response"
    \/ a.t = "null_body"

\* C4: a status request answered with 404, 401 or 5xx never ends the job as
\* FAILED or SUCCEEDED: the job stays in POLLING with the next status request
\* due (the attempt ceiling alone can end it), and the answers
\* [processing, processing, 404, succeeded] end in SUCCEEDED.
C4_TransientErrorsKeepPolling ==
    \A r \in Reqs :
        LET me == req[r]
        IN  /\ (me.statusRequests > 0 /\ TransientAnswer(me.lastResp)) =>
                  /\ me.jobState \in {"POLLING", "TIMED_OUT"}
                  /\ me.jobState = "TIMED_OUT" => me.statusRequests = 60
                  /\ me.jobState = "POLLING" =>
                        /\ me.pc = "poll"
                        /\ me.attempt = me.statusRequests
                        /\ me.attempt < 60
            /\ me.scriptPos = Len(Script) =>
                  /\ me.jobState = "SUCCEEDED"
                  /\ me.pc = "caption"
                  /\ me.statusRequests = 4

\* The scripted answers were received and the job SUCCEEDED.
C4_Witness ==
    \E r \in Reqs :
        /\ req[r].scriptPos = 4
        /\ req[r].statusRequests = 4
        /\ req[r].jobState = "SUCCEEDED"

\* C5: never more than 60 status requests are issued for a job; as long as
\* every answer had a non-terminal status the job stays in POLLING, and
\* after the 60th such answer it is TIMED_OUT with the timeout error;
\* a job is TIMED_OUT only after 60 status requests.
C5_SixtyProcessingTimesOut ==
    \A r \in Reqs :
        LET me == req[r]
        IN  /\ me.statusRequests <= 60
            /\ me.pc = "poll" => me.statusRequests < 60
            /\ (me.onlyProcessing /\ me.statusRequests > 0 /\ me.statusRequests < 60) =>
                  me.jobState = "POLLING" /\ me.pc = "poll"
            /\ (me.onlyProcessing /\ me.statusRequests = 60) =>
                  /\ me.jobState = "TIMED_OUT"
                  /\ me.pc = "unit_catch"
                  /\ me.jobErr = Err(TimeoutMsg)
            /\ (me.jobState = "TIMED_OUT" /\ me.pc = "unit_catch") =>
                  me.statusRequests = 60

\* Sixty non-terminal answers were received and the job is TIMED_OUT.
C5_Witness ==
    \E r \in Reqs :
        /\ req[r].onlyProcessing
        /\ req[r].statusRequests = 60
        /\ req[r].jobState = "TIMED_OUT"

\* What the loop's catch receives for a job that timed out.
TimedOutReport == Err(<<"Image generation failed: ">> \o TimeoutMsg)

\* C6: the error the orchestrator receives from generateImage is the timeout
\* report exactly when the job is TIMED_OUT, never when it FAILED; the same
\* holds of the error that left the router call.
C6_TimeoutToldApart ==
    \A r \in Reqs :
        LET me == req[r]
        IN  (me.pc = "unit_catch" /\ me.jobState \in {"FAILED", "TIMED_OUT"}) =>
                /\ (me.err = TimedOutReport) <=> (me.jobState = "TIMED_OUT")
                /\ (me.jobErr.msg = TimeoutMsg) <=> (me.jobState = "TIMED_OUT")

\* A unit timed out after an earlier unit of the request had failed.
C6_Witness ==
    \E r \in Reqs :
        /\ req[r].pc = "unit_catch"
        /\ req[r].jobState = "TIMED_OUT"
        /\ req[r].err = TimedOutReport
        /\ \E u \in Units : req[r].jobFinal[u] = "FAILED"

\* C7: a status request that ends in a non-transient error (4xx other than
\* 404/401, a null body, no response) moves the job to FAILED at once: the
\* failing request is the job's last one and the loop counter is not
\* advanced.
C7_HardPollErrorFailsFast ==
    \A r \in Reqs :
        LET me == req[r]
        IN  (me.statusRequests > 0 /\ HardErrorAnswer(me.lastResp)) =>
                /\ me.jobState = "FAILED"
                /\ me.pc = "unit_catch"
                /\ me.statusRequests = me.attempt + 1
                /\ me.err # NoErr

\* The first status request was answered 400 and the job FAILED.
C7_Witness ==
    \E r \in Reqs :
        /\ req[r].lastResp = [t |-> "http_error", code |-> 400]
        /\ req[r].statusRequests = 1
        /\ req[r].jobState = "FAILED"

\* C8: a status answer with status failed or error moves the job to FAILED
\* at once, and the error leaving the router call carries the service's
\* error message, or "Job failed" when the service gave none.
C8_FailedStatusCarriesMessage ==
    \A r \in Reqs :
        LET me == req[r]
            a == me.lastResp
        IN  (me.statusRequests > 0 /\ a.t = "ok" /\ a.status \in {"failed", "error"}) =>
                /\ me.jobState = "FAILED"
                /\ me.pc = "unit_catch"
                /\ me.statusRequests = me.attempt + 1
                /\ me.jobErr.msg =
                      <<"Image generation job failed: ",
                        IF a.error = "none" \/ a.error = "" THEN "Job failed" ELSE a.error>>

\* A job FAILED with the service's message "invalid image".
C8_Witness ==
    \E r \in Reqs :
        /\ req[r].lastResp.t = "ok"
        /\ req[r].lastResp.status = "failed"
        /\ req[r].lastResp.error = "invalid image"
        /\ req[r].jobState = "FAILED"
        /\ req[r].jobErr.msg = <<"Image generation job failed: ", "invalid image">>

\* C9: once a status answer reported completed or succeeded with a URL or a
\* data payload as output, the job has left POLLING and no further status
\* request is due, whatever the fetch of the URL gave.
C9_NoPollAfterCompleted ==
    \A r \in Reqs :
        LET me == req[r]
            a == me.lastResp
        IN  (/\ me.statusRequests > 0
             /\ a.t = "ok"
             /\ a.status \in {"completed", "succeeded"}
             /\ a.outputs \in {"url", "data"}) =>
                me.jobState # "POLLING" /\ me.pc # "poll"

\* C10: after an answered submission exactly one branch is taken.  With a
\* job id the job enters POLLING; without one, an inline data payload gives
\* SUCCEEDED and an output URL gives SUCCEEDED when its fetch succeeds, both
\* without any status request; with neither the job FAILED.  POLLING is
\* entered only with a job id.
C10_SubmissionBranches ==
    \A r \in Reqs :
        LET me == req[r]
            a == me.submitResp
        IN  /\ a.t = "ok" =>
                 IF a.hasId
                 THEN /\ me.jobState # "SUBMITTING"
                      /\ me.pc = "poll" => me.jobState = "POLLING"
                      /\ me.pc # "poll" => me.statusRequests >= 1
                 ELSE /\ me.statusRequests = 0
                      /\ me.pc # "poll"
                      /\ CASE a.outputs = "data" ->
                                me.jobState = "SUCCEEDED" /\ me.pc = "caption"
                           [] a.outputs = "url" ->
                                IF a.fetch.t = "ok"
                                THEN me.jobState = "SUCCEEDED" /\ me.pc = "caption"
                                ELSE me.jobState = "FAILED" /\ me.pc = "unit_catch"
                           [] OTHER ->
                                /\ me.jobState = "FAILED"
                                /\ me.pc = "unit_catch"
                                /\ me.err # NoErr
            /\ a.t = "no_data" =>
                 me.jobState = "FAILED" /\ me.pc = "unit_catch" /\ me.statusRequests = 0
            /\ (me.jobState = "POLLING" \/ me.statusRequests > 0) =>
                 a.t = "ok" /\ a.hasId

\* A submission answered with an inline data payload SUCCEEDED without any
\* status request.
C10_Witness ==
    \E r \in Reqs :
        /\ req[r].submitResp.t = "ok"
        /\ ~req[r].submitResp.hasId
        /\ req[r].submitResp.outputs = "data"
        /\ req[r].jobState = "SUCCEEDED"
        /\ req[r].statusRequests = 0

----------------------------------------------------------------------------
(* Properties of a unit's remote job *)

Terminal == {"SUCCEEDED", "FAILED", "TIMED_OUT"}

\* Units whose job was submitted and has not reached a terminal state.
InFlight(me) == {u \in Units : me.attempted[u] > 0 /\ me.jobFinal[u] = "NONE"}

\* The steps SUBMITTING -> POLLING -> {SUCCEEDED, FAILED, TIMED_OUT}.
ChainSteps ==
    {<<"SUBMITTING", "POLLING">>, <<"POLLING", "SUCCEEDED">>,
     <<"POLLING", "FAILED">>, <<"POLLING", "TIMED_OUT">>}

\* The chain, and the two steps that end a job at its submission.
JobSteps ==
    ChainSteps \cup {<<"SUBMITTING", "SUCCEEDED">>, <<"SUBMITTING", "FAILED">>}

\* The job state of a request changes along the given steps only, except
\* that the submission of a unit not attempted before starts a new job; the
\* final state recorded for a unit never changes; while polling, the job id
\* stays the same.
JobMovesAlong(steps) ==
    \A r \in Reqs :
        LET a == req[r]
            b == req'[r]
        IN  /\ \A u \in Units :
                 a.jobFinal[u] # "NONE" => b.jobFinal[u] = a.jobFinal[u]
            /\ a.jobState # b.jobState =>
                 \/ <<a.jobState, b.jobState>> \in steps
                 \/ /\ b.jobState = "SUBMITTING"
                    /\ a.jobState \in Terminal \cup {"IDLE"}
                    /\ a.attempted[b.i] = 0 /\ b.attempted[b.i] = 1
            /\ (a.jobState = "POLLING" /\ b.jobState = "POLLING") =>
                 b.jobId = a.jobId

\* One submission per unit, one job in flight, status requests for that job.
OneJobPerUnit ==
    \A r \in Reqs :
        LET me == req[r]
        IN  /\ me.submitRequests <= 1
            /\ me.pc \in {"submit", "poll"} => me.submitRequests = 1
            /\ \A u \in Units : me.attempted[u] <= 1
            /\ Cardinality(InFlight(me)) <= 1
            /\ me.pc = "poll" => me.jobId = IssuedJobId(r, me.i)
            /\ me.statusRequests > 0 =>
                  /\ me.submitRequests = 1
                  /\ me.pollTarget = IssuedJobId(r, me.i)

\* C11 (as stated): the only steps of a job's state are
\* SUBMITTING -> POLLING -> {SUCCEEDED, FAILED, TIMED_OUT}.
C11_OnlyChainSteps == [][JobMovesAlong(ChainSteps)]_vars

\* C11 (amended): for each unit exactly one submission request is issued,
\* never a second one after a failure or timeout; at most one job of the
\* request is in flight; every status request asks about the job id that the
\* unit's submission returned; a job's state moves SUBMITTING -> POLLING ->
\* {SUCCEEDED, FAILED, TIMED_OUT} or from SUBMITTING straight to SUCCEEDED
\* or FAILED, and a terminal state is never left.
C11_OneJobPerUnit == []OneJobPerUnit /\ [][JobMovesAlong(JobSteps)]_vars

\* After the first unit's job timed out, the second unit's job is polled
\* under its own id.
C11_Witness ==
    \E r \in Reqs :
        /\ req[r].jobFinal[0] = "TIMED_OUT"
        /\ req[r].i = 1
        /\ req[r].statusRequests > 0
        /\ req[r].pollTarget = IssuedJobId(r, 1)

RecognisedStatus == {"completed", "succeeded", "failed", "error"}

\* The last status answer had a body whose status is none of the four
\* recognised values (or no status at all).
StillProcessingAnswer(me) ==
    /\ me.statusRequests > 0
    /\ me.lastResp.t = "ok"
    /\ me.lastResp.status \notin RecognisedStatus

\* C12: a status answer whose status is not completed, succeeded, failed or
\* error (created, processing, an unknown string, no status field) is taken
\* as still processing: the job neither succeeds nor fails on it, and the
\* poller goes on to the next attempt, the only end being the ceiling of
\* maxAttempts status requests.
C12_UnrecognisedStatusKeepsPolling ==
    \A r \in Reqs :
        LET me == req[r]
        IN  StillProcessingAnswer(me) =>
              /\ me.jobState \notin {"SUCCEEDED", "FAILED"}
              /\ \/ /\ me.pc = "poll"
                    /\ me.jobState = "POLLING"
                    /\ me.attempt = me.statusRequests
                    /\ me.attempt < maxAttempts
                 \/ /\ me.pc = "unit_catch"
                    /\ me.jobState = "TIMED_OUT"
                    /\ me.statusRequests = maxAttempts
                    /\ me.jobErr.msg = TimeoutMsg

\* An unknown status that even carries outputs, then an answer without a
\* status field: the poller is still polling.
C12_Witness ==
    \E r \in Reqs :
        /\ req[r].pc = "poll"
        /\ req[r].attempt = 3
        /\ req[r].lastResp.t = "ok"
        /\ req[r].lastResp.status = "unknown"
        /\ req[r].lastResp.outputs = "data"

\* The last status answer reported the job done with an empty or absent
\* outputs list.
DoneWithoutOutputs(me) ==
    /\ me.statusRequests > 0
    /\ me.lastResp.t = "ok"
    /\ me.lastResp.status \in {"completed", "succeeded"}
    /\ me.lastResp.outputs = "empty"

\* C13: a status answer reporting completed or succeeded with an empty (or
\* absent) outputs list is a hard failure of the job: the poller ends with
\* the empty-outputs error at once, and that status request was the last.
C13_EmptyOutputsFailHard ==
    \A r \in Reqs :
        LET me == req[r]
        IN  DoneWithoutOutputs(me) =>
              /\ me.pc = "unit_catch"
              /\ me.jobState = "FAILED"
              /\ me.jobFinal[me.i] = "FAILED"
              /\ me.jobErr = Err(EmptyOutputsMsg)
              /\ me.statusRequests = me.attempt + 1

\* A job that was processing, then reported succeeded without outputs.
C13_Witness ==
    \E r \in Reqs :
        /\ DoneWithoutOutputs(req[r])
        /\ req[r].lastResp.status = "succeeded"
        /\ req[r].statusRequests = 2
        /\ req[r].jobState = "FAILED"

----------------------------------------------------------------------------
(* Properties of the caption *)

\* C14: generateCaption never raises: whatever the chat-completion request
\* gives (no answer, an HTTP error, a body without choices, a text that is
\* empty after the cleanup) the unit goes on to post-processing with a
\* caption that is not empty; the caption is the error fallback sentence when
\* the request fails, the other fallback sentence when the cleaned text is
\* empty, and the cleaned text otherwise; a unit is dropped only for its job,
\* or after its caption was made.
C14_CaptionNeverRaises ==
    \A r \in Reqs :
        LET me == req[r]
            ans == me.captionAnswer
        IN  /\ me.pc \in {"sharp", "stage"} => me.caption # NoCaption
            /\ me.pc = "sharp" =>
                  /\ ans # NoCaptionAnswer
                  /\ CaptionRequestFails(ans) => me.caption = FallbackOnError
                  /\ ~CaptionRequestFails(ans) =>
                        IF \A k \in 1..Len(ans.content) :
                              ans.content[k] \in Whitespace
                        THEN me.caption = FallbackEmpty
                        ELSE me.caption \in {FallbackEmpty, Cleanup(ans.content)}
                  /\ me.caption \notin {FallbackEmpty, FallbackOnError} =>
                        /\ me.caption[1] \notin Whitespace
                        /\ me.caption[Len(me.caption)] \notin Whitespace
                        /\ \A k \in 1..Len(me.caption) : me.caption[k] # "\n"
            /\ me.pc = "unit_catch" =>
                  \/ me.jobFinal[me.i] \in {"FAILED", "TIMED_OUT"}
                  \/ me.jobFinal[me.i] = "SUCCEEDED" /\ me.caption # NoCaption

\* The chat answer held only bracketed and parenthesised text, so the cleaned
\* text is empty and the unit carries the fallback sentence on.
C14_Witness ==
    \E r \in Reqs :
        /\ req[r].pc = "sharp"
        /\ req[r].captionAnswer.t = "ok"
        /\ req[r].captionAnswer.choices = "text"
        /\ Len(req[r].captionAnswer.content) = 6
        /\ req[r].caption = FallbackEmpty

----------------------------------------------------------------------------
(* Properties of the staged files *)

\* The files a request has staged and not yet archived.
StagedNames(me) ==
    {imageFilename(me.creatives[k]) : k \in DOMAIN me.creatives}
        \cup {captionFilename(me.creatives[k]) : k \in DOMAIN me.creatives}
        \cup (IF me.pc = "stage" THEN {imageFilename(me.i)} ELSE {})

\* C15: staged files are per request: with two requests served at the same
\* time, a file a request has staged still holds what that request wrote
\* until it is archived, and every entry of a returned archive was generated
\* for the request that gets the archive.
C15_StagedFilesPerRequest ==
    \A r \in Reqs :
        LET me == req[r]
        IN  /\ me.pc \in {"loop", "submit", "poll", "caption", "sharp", "stage",
                          "unit_catch", "zip"} =>
                  \A n \in StagedNames(me) : tempDir[n].req = r
            /\ me.returned =>
                  \A k \in DOMAIN me.zipBuffer : me.zipBuffer[k].content.req = r

\* generateCreatives has returned or thrown.
Left(me) == me.pc \in {"handler_ok", "handler_catch", "responded"}

\* C16: temporary per-unit files are deleted unconditionally: once
\* generateCreatives has returned or thrown, no file staged by a unit of that
\* request, surviving or dropped, remains in the temp directory.
C16_NoStagedFileRemains ==
    \A r \in Reqs :
        Left(req[r]) => \A n \in FileNames : tempDir[n].req # r

----------------------------------------------------------------------------
(* Properties of the order of the stages *)

\* The units of a request that reached their outcome: staged or dropped.
Settled(me) == {me.creatives[k] : k \in DOMAIN me.creatives} \cup me.dropped

\* C17: within one request units run one at a time: a unit's requests
\* (submission, status request, caption request) are issued only when every
\* unit before it is staged or dropped and no unit after it was started, so
\* at most one remote job of the request is in flight at any moment.
C17_UnitsRunOneAtATime ==
    \A r \in Reqs :
        LET me == req[r]
        IN  /\ Cardinality(InFlight(me)) <= 1
            /\ \A u \in Units :
                  (me.attempted[u] > 0 \/ u \in me.captioned) =>
                        \A v \in Units : v < u => v \in Settled(me)
            /\ me.pc \in {"submit", "poll", "caption"} =>
                  /\ me.attempted[me.i] = 1
                  /\ me.i \notin Settled(me)
                  /\ \A v \in Units : v > me.i =>
                        me.attempted[v] = 0 /\ v \notin me.captioned
            /\ InFlight(me) \subseteq {me.i}

\* The second unit's job is polled after the first unit was dropped.
C17_Witness ==
    \E r \in Reqs :
        /\ req[r].pc = "poll"
        /\ req[r].i = 1
        /\ req[r].statusRequests > 1
        /\ 0 \in req[r].dropped

Staged(me) == {me.creatives[k] : k \in DOMAIN me.creatives}

\* C18 (as stated): the caption request of a unit is issued only after the
\* unit's job reached SUCCEEDED and its image was post-processed.
C18_CaptionAfterPostProcessing ==
    \A r \in Reqs :
        \A u \in req[r].captioned :
            /\ req[r].jobFinal[u] = "SUCCEEDED"
            /\ u \in req[r].processed

\* C18 (amended): for each unit the stages run in the order job state
\* machine, caption, post-processing, staging: the caption request is issued
\* only after the unit's job reached SUCCEEDED and before its image is
\* post-processed; an image is post-processed only after its caption was
\* requested, a unit is staged only after post-processing, and a unit whose
\* job SUCCEEDED and that was dropped afterwards has issued its caption
\* request.
C18_CaptionBeforePostProcessing ==
    \A r \in Reqs :
        LET me == req[r]
        IN  /\ \A u \in me.captioned : me.jobFinal[u] = "SUCCEEDED"
            /\ me.processed \subseteq me.captioned
            /\ Staged(me) \subseteq me.processed
            /\ me.pc = "caption" =>
                  /\ me.jobFinal[me.i] = "SUCCEEDED"
                  /\ me.i \notin me.captioned
            /\ me.pc = "sharp" =>
                  me.i \in me.captioned /\ me.i \notin me.processed
            /\ me.pc = "stage" =>
                  me.i \in me.processed /\ me.i \notin Staged(me)
            /\ \A u \in me.dropped :
                  me.jobFinal[u] = "SUCCEEDED" => u \in me.captioned

\* A unit whose image bytes did not decode was dropped after its caption
\* request.
C18_Witness ==
    \E r \in Reqs :
        \E u \in req[r].dropped :
            /\ req[r].jobFinal[u] = "SUCCEEDED"
            /\ u \in req[r].captioned
            /\ u \notin req[r].processed

----------------------------------------------------------------------------
(* Properties of the errors that reach the request boundary *)

\* The errors of the infrastructure around the units: reading the uploads,
\* creating the temp directory, building the archive.
InfraMsgs == {ReadMsg, MkdirMsg, ArchiverMsg}

\* C19: errors of the job submitter and poller never reach the request
\* boundary: they are caught per unit, and generateCreatives throws only the
\* aggregate zero-successful-units error or an error of reading the uploads,
\* creating the temp directory or building the archive; when every unit
\* fails, the caller gets exactly the aggregate message in a 500 answer,
\* whatever the units' own errors were.  (After generateCreatives returned,
\* the handler's own unlink of an upload is the one thing left to throw.)
C19_OnlyAggregateAndInfraErrors ==
    \A r \in Reqs :
        LET me == req[r]
        IN  /\ (me.pc = "handler_catch" /\ me.returned) =>
                  me.err.msg \in {UnlinkMsg, ReadMsg}
            /\ (me.pc \in {"outer_catch", "handler_catch"} /\ ~me.returned) =>
                  /\ me.err.msg \in InfraMsgs \cup {NoCreativesMsg}
                  /\ me.err.status = 0
                  /\ me.err.msg = NoCreativesMsg <=>
                        (me.dropped = Units /\ me.creatives = <<>>)
            /\ \A u \in Units :
                  me.jobFinal[u] \in {"FAILED", "TIMED_OUT"} /\ u \notin me.dropped =>
                        me.pc = "unit_catch" /\ me.i = u
            /\ me.pc = "responded" /\ me.response.status = 500 =>
                  /\ me.response.body \in InfraMsgs \cup {NoCreativesMsg, UnlinkMsg}
                  /\ ~me.returned => me.response.body \in InfraMsgs \cup {NoCreativesMsg}
                  /\ me.dropped = Units => me.response.body = NoCreativesMsg
            /\ me.pc = "responded" /\ me.dropped = Units =>
                  /\ me.response.status = 500
                  /\ me.response.body = NoCreativesMsg

\* Every unit failed, one of them by a timeout, and the caller got the
\* aggregate message.
C19_Witness ==
    \E r \in Reqs :
        /\ req[r].pc = "responded"
        /\ req[r].dropped = Units
        /\ req[r].jobFinal[0] = "TIMED_OUT"
        /\ req[r].jobFinal[1] = "FAILED"
        /\ req[r].response.body = NoCreativesMsg

----------------------------------------------------------------------------
(* Properties of the error classes of generateImage *)

\* The unit's job failed on an answer with the given HTTP status, to the
\* submission or to a status request.
FailedOnStatus(me, code) ==
    /\ me.pc = "unit_catch"
    /\ me.jobFinal[me.i] = "FAILED"
    /\ \/ me.submitResp = [t |-> "http_error", code |-> code]
       \/ me.statusRequests > 0 /\ me.lastResp = [t |-> "http_error", code |-> code]

\* C20: when the image service answers a submission or a status request
\* with HTTP 429 the unit's failure is reported by generateImage as the
\* quota-exceeded error, and when it answers with HTTP 402 as the
\* payment-required error; neither as a generic image-generation failure.
C20_RateLimitAndPaymentClassified ==
    \A r \in Reqs :
        LET me == req[r]
        IN  /\ FailedOnStatus(me, 429) => me.err = Err(QuotaMsg)
            /\ FailedOnStatus(me, 402) => me.err = Err(PaymentMsg)

----------------------------------------------------------------------------
(* Properties of the handler *)

\* The request came without the logo or without the product image.
LacksUpload(me) == me.pc # "absent" /\ (~me.files.logo \/ ~me.files.product)

\* C21: a request that lacks the logo or the product upload is answered
\* with status 400 and the validation message, and generateCreatives is
\* never called for it: no submission, status or caption request is issued,
\* createZipFile is not called and no file is staged.
C21_MissingUploadRejected ==
    \A r \in Reqs :
        LET me == req[r]
        IN  LacksUpload(me) =>
              /\ me.pc \in {"received", "responded"}
              /\ me.pc = "responded" =>
                    me.response = Answer(400, "json",
                        <<"Both logo and product images are required">>)
              /\ \A u \in Units : me.attempted[u] = 0
              /\ me.submitRequests = 0 /\ me.statusRequests = 0
              /\ me.captioned = {} /\ me.zipCalls = 0
              /\ \A n \in FileNames : tempDir[n].req # r

\* A request with the logo only was answered 400.
C21_Witness ==
    \E r \in Reqs :
        /\ req[r].pc = "responded"
        /\ req[r].files.logo /\ ~req[r].files.product
        /\ req[r].response.status = 400

\* C22: uploaded images are always cleaned up: once the handler has sent its
\* response (the archive, a generation failure, or a validation failure),
\* no file that the request uploaded is left in the uploads directory.
C22_UploadsRemoved ==
    \A r \in Reqs :
        req[r].pc = "responded" =>
            uploadsDir \cap {logoPath(r), productPath(r)} = {}

----------------------------------------------------------------------------
(* The functions of the service taken by themselves: one call, its arguments
   and what it gives. *)

\* Highest unit index a call is made with.
MaxIndex == 25

\* generateImagePrompt, lines 606-619 and 621-634.
styles ==
    <<"modern minimalist design with clean lines and white space",
      "vibrant and colorful with bold typography and dynamic layouts",
      "elegant and sophisticated with premium feel and luxury aesthetics",
      "playful and energetic with dynamic composition and bright colors",
      "professional corporate style with subtle branding and clean design",
      "artistic and creative with unique visual elements and creative typography",
      "luxury aesthetic with gold accents and premium materials",
      "tech-forward design with futuristic elements and modern graphics",
      "natural and organic with earthy tones and authentic photography",
      "bold and striking with high contrast and dramatic lighting",
      "soft and feminine with pastel colors and gentle gradients",
      "urban and edgy with street style and contemporary design">>

compositions ==
    <<"product centered with logo in top corner",
      "product on left, logo on right with text overlay",
      "product as hero image with logo integrated seamlessly",
      "split screen design with product and logo balanced",
      "product in foreground with logo in background",
      "logo prominent at top, product featured below",
      "product surrounded by logo elements",
      "minimalist layout with product and logo side by side",
      "product with logo watermark overlay",
      "dynamic diagonal composition with product and logo",
      "product showcase with logo in footer",
      "creative collage style with product and logo integrated">>

\* Faulty variant of generateImagePrompt: the last style is never reached.
generateImagePromptShort(variationIndex) ==
    <<"Create an engaging ad creative featuring a brand logo and product image. Style: ",
      styles[(variationIndex % (Len(styles) - 1)) + 1],
      ". Composition: ",
      compositions[(variationIndex % Len(compositions)) + 1],
      ". The design should be professional, eye-catching, and suitable for social media advertising. Include the product prominently while maintaining brand identity. High quality, commercial photography style, well-lit, professional composition, no text overlays, clean design.">>

\* generateImagePrompt (lines 605-640): the text as its fragments.
generateImagePrompt(variationIndex) ==
    <<"Create an engaging ad creative featuring a brand logo and product image. Style: ",
      styles[(variationIndex % Len(styles)) + 1],
      ". Composition: ",
      compositions[(variationIndex % Len(compositions)) + 1],
      ". The design should be professional, eye-catching, and suitable for social media advertising. Include the product prominently while maintaining brand identity. High quality, commercial photography style, well-lit, professional composition, no text overlays, clean design.">>

\* The tone line of the caption request (line 957).
VariationStyle(variationIndex) ==
    CASE variationIndex % 3 = 0 -> "Direct and action-oriented"
      [] variationIndex % 3 = 1 -> "Emotional and storytelling"
      [] OTHER -> "Benefit-focused and value-driven"

\* The user message of the chat-completion request (lines 948-957).
CaptionRequest(imagePrompt, variationIndex) ==
    <<"Based on this ad creative description: ">> \o imagePrompt
        \o <<"Variation style: ", VariationStyle(variationIndex)>>

\* What the handler passes to generateCreatives (line 64 of the server
\* file): the two upload paths and the optional names of the request body.
BrandNames == {"none", "Acme"}
ProductNames == {"none", "Cola"}

Passed(brandName, productName) ==
    <<logoPath(1), productPath(1), brandName, productName>>

\* generateCreatives(logoPath, productPath) (line 517) binds its two
\* parameters; further arguments are not bound to anything.
Bind(passed) == [logoPath |-> passed[1], productPath |-> passed[2]]

\* The environment: HF_API_KEY and two more keys an operator may configure.
Envs == [key1 : {"", "hf_A"}, key2 : {"", "hf_B"}, key3 : {"", "hf_C"}]

\* const HF_API_KEY = process.env.HF_API_KEY || '' (line 481)
HF_API_KEY(env) == env.key1

Bearer(key) == <<"Bearer ", key>>

\* The credential slot of a unit index: 0-3, 4-6, 7 and above.
Slot(i) == IF i <= 3 THEN 1 ELSE IF i <= 6 THEN 2 ELSE 3

\* The key of a slot, or the default key when the slot is not configured.
SlotKey(i, env) ==
    LET k == CASE Slot(i) = 1 -> env.key1
               [] Slot(i) = 2 -> env.key2
               [] OTHER -> env.key3
    IN  IF k # "" THEN k ELSE env.key1

\* The remote requests of unit i (lines 538-542): the submission (lines
\* 698-713), the status request (lines 735-739) and the chat-completion
\* request (lines 959-982).
UnitRequests(i, params, env) ==
    LET imagePrompt == generateImagePrompt(i)
    IN  [submission |-> [prompt |-> imagePrompt,
                         authorization |-> Bearer(HF_API_KEY(env))],
         status |-> [authorization |-> Bearer(HF_API_KEY(env))],
         caption |-> [content |-> CaptionRequest(imagePrompt, i),
                      authorization |-> Bearer(HF_API_KEY(env))]]

\* What generateCreatives computes before its loop and every unit shares
\* (lines 527-528): the bytes of the two uploads.
Shared(params) ==
    [logoBuffer |-> <<"bytes", params.logoPath>>,
     productBuffer |-> <<"bytes", params.productPath>>]

InitFn ==
    /\ req = [r \in Reqs |-> Absent]
    /\ tempDir = [n \in FileNames |-> NoFile]
    /\ uploadsDir = {}
    /\ call = NoCall

\* generateImagePrompt is called with an index.
CallGenerateImagePrompt ==
    /\ \E i \in 0 .. MaxIndex :
          call' = [fn |-> "generateImagePrompt", index |-> i,
                   prompt |-> generateImagePrompt(i)]
    /\ UNCHANGED <<req, tempDir, uploadsDir>>

\* The handler calls generateCreatives, and the loop reaches unit i.
CallUnit ==
    /\ \E i \in 0 .. MaxIndex, b \in BrandNames, p \in ProductNames, env \in Envs :
          call' = [fn |-> "unit", index |-> i, passed |-> Passed(b, p), env |-> env,
                   shared |-> Shared(Bind(Passed(b, p))),
                   requests |-> UnitRequests(i, Bind(Passed(b, p)), env)]
    /\ UNCHANGED <<req, tempDir, uploadsDir>>

\* Lines a chat answer is made of: a preamble, two numbered options, a plain
\* sentence, a bracketed aside.
AnswerLines ==
    {<<"o", ":">>, <<"1", ".", " ", "a">>, <<"2", ".", " ", "b">>,
     <<"a">>, <<"[", "x", "]">>}

MaxLines == 3

RECURSIVE Texts(_)
Texts(n) ==
    IF n = 1 THEN AnswerLines
    ELSE Texts(n - 1) \cup {t \o <<"\n">> \o l : t \in Texts(n - 1), l \in AnswerLines}

\* generateCaption is called and the chat model answers with some lines.
CallGenerateCaption ==
    /\ \E c \in Texts(MaxLines) :
          LET ans == [t |-> "ok", choices |-> "text", content |-> c]
          IN  call' = [fn |-> "generateCaption", answer |-> ans,
                       caption |-> generateCaption(ans)]
    /\ UNCHANGED <<req, tempDir, uploadsDir>>

\* The bytes of an uploaded or generated image.
Bytes == {"b1", "b2"}

\* imageBuffer.toString('base64') and the data URI made of it (lines 691-694).
Base64(bytes) == <<"base64", bytes>>
ImageDataUri(bytes) == <<"data:image/jpeg;base64,", Base64(bytes)>>

\* sharp(imageBuffer).resize(1024, 1024, ...).jpeg({quality: 90}) (lines
\* 547-550).
Resized(bytes) == <<"jpeg 1024x1024 q90", bytes>>

\* Faulty variant of Run: the logo is sent along with the product image.
RunSendsLogo(logoBytes, productBytes, i, env, image, answer) ==
    LET logoBuffer == logoBytes
        productBuffer == productBytes
        imagePrompt == generateImagePrompt(i)
    IN  [requests |->
            <<[images |-> <<ImageDataUri(productBuffer), ImageDataUri(logoBuffer)>>,
               prompt |-> imagePrompt,
               authorization |-> Bearer(HF_API_KEY(env))],
              [content |-> CaptionRequest(imagePrompt, i),
               authorization |-> Bearer(HF_API_KEY(env))]>>,
         archive |->
            <<[name |-> imageFilename(i), content |-> Resized(image)],
              [name |-> captionFilename(i), content |-> generateCaption(answer)]>>]

\* One unit of a run of generateCreatives on uploads with the given bytes,
\* the service giving the image and the chat answer: the submission (lines
\* 698-713) and the chat request (lines 959-982) it issues, and the two
\* archive entries it leads to (lines 527-562, 1026-1029).
Run(logoBytes, productBytes, i, env, image, answer) ==
    LET logoBuffer == logoBytes
        productBuffer == productBytes
        imagePrompt == generateImagePrompt(i)
    IN  [requests |->
            <<[images |-> <<ImageDataUri(productBuffer)>>,
               prompt |-> imagePrompt,
               authorization |-> Bearer(HF_API_KEY(env))],
              [content |-> CaptionRequest(imagePrompt, i),
               authorization |-> Bearer(HF_API_KEY(env))]>>,
         archive |->
            <<[name |-> imageFilename(i), content |-> Resized(image)],
              [name |-> captionFilename(i), content |-> generateCaption(answer)]>>]

\* Two runs on the same product image, with the same answers of the
\* services, and with a logo each.
CallRuns ==
    /\ \E logo1 \in Bytes, logo2 \in Bytes, product \in Bytes, image \in Bytes,
          i \in Units :
          LET env == [key1 |-> "hf_A", key2 |-> "", key3 |-> ""]
              answer == [t |-> "ok", choices |-> "text", content |-> <<"a">>]
          IN  call' = [fn |-> "runs", index |-> i,
                       logos |-> <<logo1, logo2>>, product |-> product,
                       first |-> Run(logo1, product, i, env, image, answer),
                       second |-> Run(logo2, product, i, env, image, answer)]
    /\ UNCHANGED <<req, tempDir, uploadsDir>>

ProductRequiredMsg == <<"Product image is required for image generation">>

\* Errors that are raised inside generateImageViaRouterImageToImage, as they
\* leave its catch.
RouterErrs ==
    {RouterCatch(e) :
        e \in {AxiosErr(c, b) : c \in {402, 429, 500}, b \in ErrBodies}
              \cup {NetErr, TypeErr, Err(TimeoutMsg), Err(EmptyOutputsMsg),
                    JobFailedErr("code 402"), JobFailedErr("none")}}

\* How a call of generateImageViaRouterImageToImage ends, and the number of
\* network requests it issued.
RouterOutcomes ==
    {[k |-> "return", err |-> NoErr, requests |-> n] : n \in {1, 2}}
    \cup {[k |-> "throw", err |-> e, requests |-> n] : e \in RouterErrs, n \in {1, 2}}

\* Faulty variant of generateImage: the router is called without the test
\* for the product image.
generateImageNoTest(productBuffer, outcome) ==
    [requests |-> outcome.requests,
     result |-> IF outcome.k = "return" THEN Return
                ELSE Throw(GenerateImageCatch(outcome.err))]

\* generateImage(prompt, productBuffer) (lines 653-680).
generateImage(productBuffer, outcome) ==
    IF productBuffer = "null"
    THEN [requests |-> 0,
          result |-> Throw(GenerateImageCatch(Err(ProductRequiredMsg)))]
    ELSE [requests |-> outcome.requests,
          result |-> IF outcome.k = "return" THEN Return
                     ELSE Throw(GenerateImageCatch(outcome.err))]

\* generateImage is called, with or without a product image.
CallGenerateImage ==
    /\ \E productBuffer \in Bytes \cup {"null"}, outcome \in RouterOutcomes :
          LET g == generateImage(productBuffer, outcome)
          IN  call' = [fn |-> "generateImage", productBuffer |-> productBuffer,
                       requests |-> g.requests, result |-> g.result]
    /\ UNCHANGED <<req, tempDir, uploadsDir>>

NextFn ==
    \/ CallGenerateImagePrompt
    \/ CallUnit
    \/ CallGenerateCaption
    \/ CallRuns
    \/ CallGenerateImage

SpecFn == InitFn /\ [][NextFn]_vars

----------------------------------------------------------------------------
(* Properties of createZipFile *)

\* C23: createZipFile releases the archive buffer only after all entries
\* are finalized: the promise is settled at most once and keeps what it was
\* settled with; it is resolved only when every staged file was queued,
\* finalize was called and the stream has ended, and then with the
\* concatenation of all emitted chunks in the order of emission, which is
\* the whole archive; once the archiver has reported an error the promise is
\* rejected with it and never resolved with what was collected.
ZipSettledRight ==
    call.fn = "createZipFile" =>
        /\ call.settled <= 1
        /\ call.promise = "pending" <=> call.settled = 0
        /\ call.promise = "resolved" =>
              /\ call.queue = QueuedNames(call.creatives)
              /\ call.finalized /\ call.ended /\ ~call.errored
              /\ Len(call.stream) = 0
              /\ call.buffer = Concat(call.chunks)
              /\ call.buffer = ArchiveStream(call.queue, tempDir)
              /\ call.error = NoErr
        /\ call.errored =>
              /\ call.promise = "rejected"
              /\ call.error = Err(ArchiverMsg)
              /\ call.buffer = <<>>
        /\ (call.ended /\ ~call.errored) => call.promise = "resolved"
        /\ call.promise = "rejected" => call.errored

SettledStays ==
    call.promise # "pending" =>
        /\ call'.promise = call.promise
        /\ call'.buffer = call.buffer
        /\ call'.error = call.error

C23_BufferReleasedWhenFinalized == []ZipSettledRight /\ [][SettledStays]_vars

\* An archive of two creatives was resolved from five chunks or more.
C23_Witness ==
    /\ call.fn = "createZipFile"
    /\ call.promise = "resolved"
    /\ Len(call.creatives) = 2
    /\ Len(call.chunks) >= 5

----------------------------------------------------------------------------
(* Properties of the prompts, the credentials and the caption text *)

\* The fragments of a text mention the name.
Mentions(text, name) == \E k \in DOMAIN text : text[k] = name

\* C24: when brand and product cannot be determined from the images, the
\* names the user supplied with the request are used: the prompt and the
\* caption request of a unit carry the supplied brand and product names.
C24_SuppliedNamesUsed ==
    (call.fn = "unit" /\ call.passed[3] # "none" /\ call.passed[4] # "none") =>
        /\ Mentions(call.requests.submission.prompt, call.passed[3])
        /\ Mentions(call.requests.submission.prompt, call.passed[4])
        /\ Mentions(call.requests.caption.content, call.passed[3])
        /\ Mentions(call.requests.caption.content, call.passed[4])

\* C25: generateImagePrompt depends on the index modulo 12 only: an index
\* gives the style and the composition at position (index mod 12) of the two
\* lists, and the same prompt as every index equal to it modulo 12.
C25_PromptPeriodTwelve ==
    call.fn = "generateImagePrompt" =>
        /\ Len(call.prompt) = 5
        /\ call.prompt[2] = styles[(call.index % 12) + 1]
        /\ call.prompt[4] = compositions[(call.index % 12) + 1]
        /\ \A j \in 0 .. MaxIndex :
              j % 12 = call.index % 12 => generateImagePrompt(j) = call.prompt

\* The prompt of index 23, which is that of index 11.
C25_Witness ==
    /\ call.fn = "generateImagePrompt"
    /\ call.index = 23
    /\ call.prompt = generateImagePrompt(11)
    /\ call.prompt # generateImagePrompt(0)

\* C26: the requests of units 0-3 use credential slot 1, those of units 4-6
\* slot 2 and those of units 7 and above slot 3, the default credential
\* standing in for a slot that is not configured.
C26_CredentialBySlot ==
    call.fn = "unit" =>
        LET auth == Bearer(SlotKey(call.index, call.env))
        IN  /\ call.requests.submission.authorization = auth
            /\ call.requests.status.authorization = auth
            /\ call.requests.caption.authorization = auth

Digits == {"1", "2"}

\* The text has a digit followed by a dot.
HasDigitDot(text) ==
    \E k \in 1 .. Len(text) - 1 : text[k] \in Digits /\ text[k + 1] = "."

\* Answers made of an options preamble and numbered lines after it.
NumberedResponses ==
    LET pre == <<"o", ":">>
        one == <<"1", ".", " ", "a">>
        two == <<"2", ".", " ", "b">>
    IN  {pre \o <<"\n">> \o one, pre \o <<"\n">> \o one \o <<"\n">> \o two}

\* C27: a numbered multi-option answer is reduced to a single caption with
\* no enumeration marker in front and no digit-dot prefix in it.
C27_NumberedOptionsReduced ==
    (call.fn = "generateCaption" /\ call.answer.content \in NumberedResponses) =>
        ~HasDigitDot(call.caption)

\* The brand contexts a description can give; the last is the one of a
\* failed extraction.
BrandContexts ==
    [brand : {"Acme", "the brand"}, product : {"Cola", "the product"}]

\* C28: a request has one BrandContext, computed before the units and shared
\* by all of them, whatever the description service answered; it holds the
\* placeholders 'the brand' and 'the product' when nothing was extracted.
C28_BrandContextShared ==
    call.fn = "unit" =>
        /\ "brandContext" \in DOMAIN call.shared
        /\ call.shared.brandContext \in BrandContexts

----------------------------------------------------------------------------
(* Termination of the polling loop *)

\* An answer that does not end a job: a non-terminal status or a 401, 404 or
\* 5xx error.
KeepsPolling(a) == NonTerminal(a) \/ TransientAnswer(a)

\* A step of a request that is polling issues one more status request; when
\* the answer keeps polling the loop goes on with one attempt used, or, the
\* answer being the 60th, the job is TIMED_OUT; the job leaves POLLING only
\* on an answer that does not keep polling or at that ceiling.
PollStepBounded(r) ==
    LET me == req[r]
        nx == req'[r]
    IN  (me.pc = "poll" /\ nx # me) =>
            /\ me.attempt = me.statusRequests
            /\ nx.statusRequests = me.statusRequests + 1
            /\ nx.statusRequests <= maxAttempts
            /\ nx.pc = "poll" =>
                  /\ nx.attempt = me.attempt + 1
                  /\ nx.attempt < maxAttempts
                  /\ nx.jobState = "POLLING"
            /\ KeepsPolling(nx.lastResp) =>
                  IF nx.statusRequests < maxAttempts
                  THEN nx.pc = "poll"
                  ELSE nx.jobState = "TIMED_OUT" /\ nx.pc = "unit_catch"
            /\ nx.pc # "poll" =>
                  \/ ~KeepsPolling(nx.lastResp)
                  \/ nx.statusRequests = maxAttempts /\ nx.jobState = "TIMED_OUT"
            /\ nx.jobState = "TIMED_OUT" => nx.statusRequests = maxAttempts

\* C30: the poller terminates: every iteration uses one of the 60 attempts,
\* whether the answer was a non-terminal status or a 401, 404 or 5xx error;
\* sixty such answers end in TIMED_OUT, and the ceiling is the only way out
\* of POLLING besides a terminal answer.
C30_PollerTerminates == [][\A r \in Reqs : PollStepBounded(r)]_vars

\* Sixty answers, errors among them, the last one a transient error, and the
\* job is TIMED_OUT.
C30_Witness ==
    \E r \in Reqs :
        /\ req[r].statusRequests = maxAttempts
        /\ TransientAnswer(req[r].lastResp)
        /\ ~req[r].onlyProcessing
        /\ req[r].jobState = "TIMED_OUT"

----------------------------------------------------------------------------
(* Cleanup and the outcome of a request *)

\* C31: an unlink that fails never changes the outcome: a request whose
\* archive was built answers 200 with that archive, and a request that
\* failed answers 500 with the error generateCreatives threw.
C31_CleanupNeverChangesOutcome ==
    \A r \in Reqs :
        LET me == req[r]
        IN  me.pc = "responded" =>
                /\ me.returned =>
                      me.response = Answer(200, "zip", me.zipBuffer)
                /\ (~me.returned /\ me.response.status # 400) =>
                      /\ me.response.status = 500
                      /\ me.response.body \in InfraMsgs \cup {NoCreativesMsg}

\* The step is the outer catch of request r.
OuterCatchStep(r) == req[r].pc = "outer_catch" /\ req'[r].pc = "handler_catch"

\* C32: the cleanup of a failed request removes that request's staged files
\* only: a file another request staged is still there after it.
C32_FailureCleanupOwnFilesOnly ==
    [][\A r \in Reqs :
          OuterCatchStep(r) =>
              \A n \in FileNames :
                  (tempDir[n] # NoFile /\ tempDir[n].req # r) => tempDir'[n] = tempDir[n]]_vars

\* The files of the creatives a request has listed.
Listed(me) ==
    UNION {{imageFilename(me.creatives[k]), captionFilename(me.creatives[k])} :
              k \in DOMAIN me.creatives}

\* Until createZipFile has settled, every listed file is in the temp
\* directory and is the file this request staged.
ListedFilesExist ==
    \A r \in Reqs :
        LET me == req[r]
        IN  me.pc \in {"loop", "submit", "poll", "caption", "sharp", "stage",
                       "unit_catch", "zip"} =>
                \A n \in Listed(me) : tempDir[n] # NoFile /\ tempDir[n].req = r

\* A step that removes a listed file of a request that has not failed is the
\* step in which createZipFile resolved, and the buffer holds the file as it
\* was before the removal.
UnlinkAfterResolve ==
    \A r \in Reqs :
        \A n \in Listed(req[r]) :
            (tempDir[n] # NoFile /\ tempDir'[n] = NoFile /\ ~OuterCatchStep(r)) =>
                /\ req[r].pc = "zip" /\ ~req[r].returned
                /\ req'[r].returned
                /\ \E k \in DOMAIN req'[r].zipBuffer :
                      req'[r].zipBuffer[k] = [name |-> n, content |-> tempDir[n]]

\* C33: on the success path no staged file is removed before the archive
\* buffer is complete, and every listed file exists from its listing until
\* createZipFile resolved.
C33_NoUnlinkBeforeArchive == []ListedFilesExist /\ [][UnlinkAfterResolve]_vars

\* An archive of two creatives was returned and their four files are gone.
C33_Witness ==
    \E r \in Reqs :
        /\ req[r].returned
        /\ Len(req[r].creatives) = 2
        /\ Len(req[r].zipBuffer) = 4
        /\ \A n \in Listed(req[r]) : tempDir[n] = NoFile

----------------------------------------------------------------------------
(* The answers of the handler *)

\* The answer of a request is none until the handler has ended, and then
\* one of the three: 400 with the validation error, 200 with the buffer
\* generateCreatives returned, 500 with an error message as JSON.
AnswerShapes ==
    \A r \in Reqs :
        LET me == req[r]
            a == me.response
        IN  /\ (me.pc = "responded") <=> (a # NoAnswer)
            /\ a # NoAnswer =>
                  /\ a.status \in {200, 400, 500}
                  /\ (a.kind = "zip") <=> (a.status = 200)
                  /\ a.status = 200 => me.returned /\ a.body = me.zipBuffer
                  /\ a.status # 200 => a.kind = "json" /\ Len(a.body) >= 1
                  /\ a.status = 400 =>
                        a.body = <<"Both logo and product images are required">>

\* An answer that was sent is not followed by another.
AnsweredOnce ==
    \A r \in Reqs : req[r].response # NoAnswer => req'[r].response = req[r].response

\* C34: the handler sends exactly one answer per request, the 200 answer
\* only with the buffer generateCreatives returned, and never ZIP headers
\* with an error body.
C34_ExactlyOneAnswer == []AnswerShapes /\ [][AnsweredOnce]_vars

\* generateCreatives returned a buffer and the request was answered 500,
\* as JSON.
C34_Witness ==
    \E r \in Reqs :
        /\ req[r].pc = "responded"
        /\ req[r].returned
        /\ req[r].response.status = 500
        /\ req[r].response.kind = "json"

----------------------------------------------------------------------------
(* The client-library version of generateImage (lines 184-260) with
   generateImageViaRouter (268-303) and generateImageViaDirectRouter
   (309-370), taken by itself.  Every await is the end of a step. *)

\* typeof Blob !== 'undefined' (line 200): the README asks for Node.js 18 or
\* higher, which has Blob.
BlobDefined == TRUE

FluxUnavailableMsg ==
    <<"FLUX.1-dev model not available. Please check your API key has access to fal-ai provider or use Inference Endpoints.">>

\* What a call of the HfInference client can reject with.
ClientErrs ==
    {Err(<<m>>) : m \in {"no longer supported", "not available", "quota exceeded", "fetch failed"}}

\* What a direct axios.post to the router can reject with.
DirectErrs ==
    {AxiosErr(c, [b |-> "text", msg |-> m]) :
        c \in {429, 503}, m \in {"quota exceeded", "invalid image"}}
    \cup {NetErr}

Ok == [k |-> "ok"]

ClientAnswers == {Ok} \cup {Throw(e) : e \in ClientErrs}
DirectAnswers == {Ok} \cup {Throw(e) : e \in DirectErrs}

\* generateImage(prompt, productBuffer) is called.
ClientCall(product) ==
    [fn |-> "generateImage", pc |-> "start", productBuffer |-> product,
     attempts |-> <<>>,          \* the requests issued, with their answers
     err |-> NoErr,              \* the error in flight
     result |-> [k |-> "none"]]

InitClient ==
    /\ req = [r \in Reqs |-> Absent]
    /\ tempDir = [n \in FileNames |-> NoFile]
    /\ uploadsDir = {}
    /\ call \in {ClientCall(p) : p \in BOOLEAN}

Attempt(step, ans) == [step |-> step, ans |-> ans]

\* Lines 190-238: with a product image and Blob, imageToImage comes first;
\* otherwise generateImageViaRouter.
ClientBegin ==
    /\ call.fn = "generateImage" /\ call.pc = "start"
    /\ call' = [call EXCEPT !.pc = IF call.productBuffer /\ BlobDefined
                                   THEN "imageToImage:Buffer"
                                   ELSE "textToImage"]
    /\ UNCHANGED <<req, tempDir, uploadsDir>>

\* Faulty variant of ImageEditFallback: an imageToImage error is not caught.
ImageEditFallbackNone(ans) == IF ans = Ok THEN "convert" ELSE "catch"

\* The catch of imageEditError (lines 230-234): generateImageViaRouter.
ImageEditFallback(ans) == IF ans = Ok THEN "convert" ELSE "textToImage"

\* client.imageToImage with the Buffer (lines 201-211); its catch goes on
\* with the Blob (lines 212-214).
ImageToImageBuffer ==
    /\ call.fn = "generateImage" /\ call.pc = "imageToImage:Buffer"
    /\ \E ans \in ClientAnswers :
          call' = [call EXCEPT
              !.attempts = Append(@, Attempt("imageToImage:Buffer", ans)),
              !.pc = IF ans = Ok THEN "convert" ELSE "imageToImage:Blob"]
    /\ UNCHANGED <<req, tempDir, uploadsDir>>

\* client.imageToImage with the Blob (lines 214-224).
ImageToImageBlob ==
    /\ call.fn = "generateImage" /\ call.pc = "imageToImage:Blob"
    /\ \E ans \in ClientAnswers :
          call' = [call EXCEPT
              !.attempts = Append(@, Attempt("imageToImage:Blob", ans)),
              !.pc = ImageEditFallback(ans)]
    /\ UNCHANGED <<req, tempDir, uploadsDir>>

\* Faulty variant of ViaRouterCatch: the direct call follows every failure.
ViaRouterCatchAlwaysDirect(e) == [k |-> "direct"]

\* The catch of generateImageViaRouter (lines 288-302).
ViaRouterCatch(e) ==
    IF Includes(e.msg, "no longer supported") THEN [k |-> "direct"]
    ELSE IF Includes(e.msg, "not available") THEN Throw(Err(FluxUnavailableMsg))
    ELSE Throw(e)

\* client.textToImage of generateImageViaRouter (lines 275-286) and its catch.
TextToImage ==
    /\ call.fn = "generateImage" /\ call.pc = "textToImage"
    /\ \E ans \in ClientAnswers :
          LET tried == [call EXCEPT !.attempts = Append(@, Attempt("textToImage", ans))]
              c == ViaRouterCatch(ans.err)
          IN  call' = IF ans = Ok THEN [tried EXCEPT !.pc = "convert"]
                      ELSE IF c.k = "direct" THEN [tried EXCEPT !.pc = "direct:body"]
                      ELSE [tried EXCEPT !.pc = "catch", !.err = c.err]
    /\ UNCHANGED <<req, tempDir, uploadsDir>>

\* The first axios.post of generateImageViaDirectRouter, provider in the
\* body (lines 313-336).
DirectBody ==
    /\ call.fn = "generateImage" /\ call.pc = "direct:body"
    /\ \E ans \in DirectAnswers :
          call' = [call EXCEPT
              !.attempts = Append(@, Attempt("direct:body", ans)),
              !.pc = IF ans = Ok THEN "convert" ELSE "direct:url"]
    /\ UNCHANGED <<req, tempDir, uploadsDir>>

\* new Error(`Router endpoint failed: ${status} - ${data || message}`)
\* (line 367).
RouterFailedErr(e2) ==
    Err(<<"Router endpoint failed: ",
          IF e2.status = 0 THEN "undefined" ELSE ToString(e2.status), " - ">>
        \o (IF e2.status = 0 THEN e2.msg ELSE <<e2.body.msg>>))

\* The second axios.post, provider in the URL (lines 340-368).
DirectUrl ==
    /\ call.fn = "generateImage" /\ call.pc = "direct:url"
    /\ \E ans \in DirectAnswers :
          LET tried == [call EXCEPT !.attempts = Append(@, Attempt("direct:url", ans))]
          IN  call' = IF ans = Ok THEN [tried EXCEPT !.pc = "convert"]
                      ELSE [tried EXCEPT !.pc = "catch", !.err = RouterFailedErr(ans.err)]
    /\ UNCHANGED <<req, tempDir, uploadsDir>>

\* Lines 240-250: the Blob (or the object with arrayBuffer) becomes a Buffer.
ClientConvert ==
    /\ call.fn = "generateImage" /\ call.pc = "convert"
    /\ call' = [call EXCEPT !.pc = "done", !.result = Return]
    /\ UNCHANGED <<req, tempDir, uploadsDir>>

\* The catch of generateImage (lines 251-259).
ClientGenerateImageCatch(e) ==
    IF e.status = 429 \/ Includes(e.msg, "quota")
    THEN Err(QuotaMsg)
    ELSE Err(<<"Image generation failed: ">> \o e.msg)

ClientCatch ==
    /\ call.fn = "generateImage" /\ call.pc = "catch"
    /\ call' = [call EXCEPT !.pc = "done",
                            !.result = Throw(ClientGenerateImageCatch(call.err))]
    /\ UNCHANGED <<req, tempDir, uploadsDir>>

NextClient ==
    \/ ClientBegin
    \/ ImageToImageBuffer
    \/ ImageToImageBlob
    \/ TextToImage
    \/ DirectBody
    \/ DirectUrl
    \/ ClientConvert
    \/ ClientCatch

SpecClient == InitClient /\ [][NextClient]_vars

----------------------------------------------------------------------------
(* Properties of the client-library version *)

ChainOrder == <<"imageToImage:Buffer", "imageToImage:Blob", "textToImage">>

Deprecated(ans) == ans # Ok /\ Includes(ans.err.msg, "no longer supported")

\* C36: the direct router call follows only a textToImage failure that
\* says 'no longer supported'; there are at most two direct requests, the
\* one with the provider in the body and then, only after that one failed,
\* the one with the provider in the URL; after any other textToImage failure
\* no further request is issued and an error is thrown.
C36_DirectRouterOnlyWhenDeprecated ==
    call.fn = "generateImage" =>
        LET a == call.attempts
        IN  /\ \A k \in DOMAIN a :
                  /\ a[k].step = "direct:body" =>
                        k > 1 /\ a[k - 1].step = "textToImage" /\ Deprecated(a[k - 1].ans)
                  /\ a[k].step = "direct:url" =>
                        k > 1 /\ a[k - 1].step = "direct:body" /\ a[k - 1].ans # Ok
                  /\ (a[k].step = "textToImage" /\ a[k].ans # Ok /\ ~Deprecated(a[k].ans)) =>
                        /\ k = Len(a)
                        /\ call.pc \in {"catch", "done"}
                        /\ call.err = IF Includes(a[k].ans.err.msg, "not available")
                                      THEN Err(FluxUnavailableMsg)
                                      ELSE a[k].ans.err
                        /\ call.pc = "done" => call.result.k = "throw"
            /\ Cardinality({k \in DOMAIN a :
                              a[k].step \in {"direct:body", "direct:url"}}) <= 2
            /\ \A j, k \in DOMAIN a :
                  (a[j].step = a[k].step /\ a[j].step \in {"direct:body", "direct:url"}) => j = k

\* Both direct requests were made and failed, and the error was thrown.
C36_Witness ==
    /\ call.fn = "generateImage"
    /\ call.pc = "done" /\ call.result.k = "throw"
    /\ Len(call.attempts) >= 3
    /\ call.attempts[Len(call.attempts)].step = "direct:url"
    /\ call.attempts[Len(call.attempts) - 1].step = "direct:body"

----------------------------------------------------------------------------
(* Properties of generateImage, router version *)

\* The submission or the last status request was answered with the status.
AnsweredWith(me, code) ==
    \/ me.submitResp = [t |-> "http_error", code |-> code]
    \/ me.statusRequests > 0 /\ me.lastResp = [t |-> "http_error", code |-> code]

\* An answer of the service may have carried a quota message: the error
\* field of the last status answer, or the body of an HTTP error answer.
QuotaMessagePossible(me) ==
    \/ me.submitResp.t = "http_error"
    \/ me.statusRequests > 0 /\ me.lastResp.t = "http_error"
    \/ me.statusRequests > 0 /\ me.lastResp.t = "ok" /\ me.lastResp.error = "quota exceeded"

\* C37: generateImage reports the payment-required error only when the
\* service answered with HTTP 402, and the quota-exceeded error only when it
\* answered with HTTP 429 or with a quota message.
C37_ClassifiedOnlyOnStatus ==
    \A r \in Reqs :
        LET me == req[r]
        IN  me.pc = "unit_catch" =>
                /\ me.err = Err(PaymentMsg) => AnsweredWith(me, 402)
                /\ me.err = Err(QuotaMsg) =>
                      AnsweredWith(me, 429) \/ QuotaMessagePossible(me)

----------------------------------------------------------------------------
(* The upload page (ContentStudio): its state hooks, handleGenerate, the
   simulated-progress interval and the answer of the request. *)

\* Intervals of earlier generations that were never cleared are counted up
\* to this bound.
MaxStray == 2

UiErrors == {"none", "Please upload both logo and product image", "server error"}

\* The component after its first render (lines 5-11).
ContentStudio ==
    [fn |-> "ContentStudio",
     logoFile |-> FALSE, productFile |-> FALSE,
     loading |-> FALSE, error |-> "none", progress |-> 0,
     progressInterval |-> FALSE,  \* the interval of the running generation is live
     stray |-> 0,                 \* live intervals of generations that have ended
     pending |-> FALSE,           \* the POST is in flight
     invalidClicks |-> 0]

InitUi ==
    /\ req = [r \in Reqs |-> Absent]
    /\ tempDir = [n \in FileNames |-> NoFile]
    /\ uploadsDir = {}
    /\ call = ContentStudio

\* handleLogoUpload, handleProductUpload (lines 13-35).
handleLogoUpload ==
    /\ call.fn = "ContentStudio" /\ ~call.logoFile
    /\ call' = [call EXCEPT !.logoFile = TRUE]
    /\ UNCHANGED <<req, tempDir, uploadsDir>>

handleProductUpload ==
    /\ call.fn = "ContentStudio" /\ ~call.productFile
    /\ call' = [call EXCEPT !.productFile = TRUE]
    /\ UNCHANGED <<req, tempDir, uploadsDir>>

\* handleGenerate up to its await (lines 37-75).  The button that invokes it
\* is disabled while loading (line 259); the test for the two files is
\* handleGenerate's own.
handleGenerate ==
    /\ call.fn = "ContentStudio"
    /\ ~call.loading
    /\ call.stray < MaxStray
    /\ IF ~call.logoFile \/ ~call.productFile
       THEN /\ call.invalidClicks = 0
            /\ call' = [call EXCEPT
                    !.error = "Please upload both logo and product image",
                    !.invalidClicks = 1]
       ELSE call' = [call EXCEPT !.loading = TRUE, !.error = "none", !.progress = 0,
                                 !.progressInterval = TRUE, !.pending = TRUE]
    /\ UNCHANGED <<req, tempDir, uploadsDir>>

\* The interval's callback (lines 52-60): at 90 or more it clears its own
\* interval, below it adds 10.
Tick(own) ==
    /\ call.fn = "ContentStudio"
    /\ IF own THEN call.progressInterval ELSE call.stray > 0
    /\ call' = IF call.progress >= 90
               THEN IF own THEN [call EXCEPT !.progressInterval = FALSE]
                           ELSE [call EXCEPT !.stray = @ - 1]
               ELSE [call EXCEPT !.progress = @ + 10]
    /\ UNCHANGED <<req, tempDir, uploadsDir>>

\* onDownloadProgress (lines 67-72).
onDownloadProgress ==
    /\ call.fn = "ContentStudio" /\ call.pending
    /\ \E percentCompleted \in {0, 50, 100} :
          call' = [call EXCEPT !.progress = percentCompleted]
    /\ UNCHANGED <<req, tempDir, uploadsDir>>

\* The POST resolved (lines 77-92): clear the interval, download, idle.
PostResolved ==
    /\ call.fn = "ContentStudio" /\ call.pending
    /\ call' = [call EXCEPT !.pending = FALSE, !.progressInterval = FALSE,
                            !.loading = FALSE, !.progress = 0]
    /\ UNCHANGED <<req, tempDir, uploadsDir>>

\* The POST rejected (lines 93-97): progressInterval is a variable of the try
\* block and the catch does not clear it.
PostRejected ==
    /\ call.fn = "ContentStudio" /\ call.pending
    /\ call' = [call EXCEPT !.pending = FALSE, !.error = "server error",
                            !.loading = FALSE, !.progress = 0,
                            !.progressInterval = FALSE,
                            !.stray = @ + (IF call.progressInterval THEN 1 ELSE 0)]
    /\ UNCHANGED <<req, tempDir, uploadsDir>>

NextUi ==
    \/ handleLogoUpload
    \/ handleProductUpload
    \/ handleGenerate
    \/ \E own \in BOOLEAN : Tick(own)
    \/ onDownloadProgress
    \/ PostResolved
    \/ PostRejected

SpecUi == InitUi /\ [][NextUi]_vars

\* C38: handleGenerate always returns the page to idle: once the request
\* has settled loading is false, no progress interval is live and progress
\* is 0 until the next generation; while loading, progress is within 0..100;
\* without a logo or a product file no request is sent.
C38_ReturnsToIdle ==
    call.fn = "ContentStudio" =>
        /\ ~call.loading =>
              /\ call.progress = 0
              /\ ~call.progressInterval /\ call.stray = 0
              /\ ~call.pending
        /\ call.loading => call.progress \in 0 .. 100
        /\ call.pending => call.logoFile /\ call.productFile

----------------------------------------------------------------------------
(* The logo *)

----------------------------------------------------------------------------
(* The errors of generateImage *)

\* An error of one of the three shapes generateImage throws.
ThreeShapes(e) ==
    \/ e = Err(QuotaMsg)
    \/ e = Err(PaymentMsg)
    \/ /\ Len(e.msg) >= 2
       /\ e.msg[1] = "Image generation failed: "
       /\ e.status = 0

====
